---------------------------- MODULE Spec2Model ----------------------------
(***************************************************************************)
(* A model of the JavaScript tagger of global-ext-parsers: tagJavaScript,  *)
(* tagJavaScriptFile, parseJS, decorateAST, determineTagType, tagAST and   *)
(* tagInfoFromLiteral of js-parser.js, readFile of common.js and the       *)
(* command line driver that maps tagJavaScriptFile over its arguments.     *)
(*                                                                         *)
(* Strings are sequences of one-character strings, so that split, indexOf, *)
(* slice, startsWith and the two regular expressions of the literal        *)
(* scanner are computed character by character.  The syntax tree is a      *)
(* region of a heap of objects: decorateAST writes parent links into it    *)
(* and replaces reused objects by shallow copies, as the code does.        *)
(* The parser (esprima) is outside the repository: what it returns for a   *)
(* source text under either grammar is data (ParseResult).                 *)
(***************************************************************************)
EXTENDS Integers, Sequences, FiniteSets, TLC

(***************************************************************************)
(* Bounds of the model.                                                    *)
(***************************************************************************)
\* The command line names up to NFiles files.
NFiles == 2
\* aLineOffset and aColumnOffset range over 0..MaxOffset.
MaxOffset == 1

(***************************************************************************)
(* F(v), with v evaluated once before F is applied to its value.           *)
(***************************************************************************)
Apply(F(_), v) == CHOOSE r \in {F(x) : x \in {v}} : TRUE

(***************************************************************************)
(* Strings                                                                 *)
(***************************************************************************)
EmptyStr == << >>
\* JavaScript's undefined, where a string was expected (sources[k] past the
\* end of the array).
Undefined == <<"undefined">>

LowerCase ==
    {"a", "b", "c", "d", "e", "f", "g", "h", "i", "j", "k", "l", "m",
     "n", "o", "p", "q", "r", "s", "t", "u", "v", "w", "x", "y", "z"}
UpperCase ==
    {"A", "B", "C", "D", "E", "F", "G", "H", "I", "J", "K", "L", "M",
     "N", "O", "P", "Q", "R", "S", "T", "U", "V", "W", "X", "Y", "Z"}
Digits == {"0", "1", "2", "3", "4", "5", "6", "7", "8", "9"}
\* \w of a JavaScript regular expression
WordChars == LowerCase \cup UpperCase \cup Digits \cup {"_"}
\* [\w-]
IdChars == WordChars \cup {"-"}

\* s.slice(from) and s.slice(from, to), zero-based, `to' exclusive
Slice(s, from, to) ==
    IF to <= from THEN EmptyStr ELSE SubSeq(s, from + 1, to)

StartsWith(s, prefix) ==
    /\ Len(prefix) <= Len(s)
    /\ SubSeq(s, 1, Len(prefix)) = prefix

\* s.indexOf(t): the zero-based index of the first occurrence, or -1
IndexOf(s, t) ==
    LET hits == {i \in 0..(Len(s) - Len(t)) : Slice(s, i, i + Len(t)) = t}
    IN  IF hits = {} THEN -1
        ELSE CHOOSE i \in hits : \A j \in hits : i <= j

\* s.split('\n')
RECURSIVE Split(_)
Split(s) ==
    LET rest(t) ==
            LET nl == IndexOf(t, <<"\n">>)
            IN  IF nl = -1 THEN <<t>>
                ELSE <<Slice(t, 0, nl)>> \o Split(Slice(t, nl + 1, Len(t)))
    IN  Apply(rest, s)

\* arr[k] of a JavaScript array of strings, zero-based
At(arr, k) ==
    IF k >= 0 /\ k < Len(arr) THEN arr[k + 1] ELSE Undefined

\* data.toString().replace(/^#!.*/, ''): a leading "#!" line loses its
\* text up to, not including, the line break.
StripShebang(s) ==
    IF StartsWith(s, <<"#", "!">>)
    THEN LET nl == IndexOf(s, <<"\n">>)
         IN  IF nl = -1 THEN EmptyStr ELSE Slice(s, nl, Len(s))
    ELSE s

(***************************************************************************)
(* The regular expressions of tagInfoFromLiteral:                          *)
(*     /[.#]\b[\w-]+\b/g   (isSelector)      /\b[\w-]+\b/g   (otherwise)   *)
(* Positions are zero-based offsets between characters.                    *)
(***************************************************************************)
IsWordAt(s, i) == i >= 0 /\ i < Len(s) /\ s[i + 1] \in WordChars

AnyOffset(s, i) == TRUE

\* \b at offset i: exactly one of the characters before and after it is \w
Boundary(s, i) == IsWordAt(s, i - 1) # IsWordAt(s, i)

\* The end of the longest run of [\w-] starting at offset i.
RECURSIVE RunEnd(_, _)
RunEnd(s, i) ==
    IF i < Len(s) /\ s[i + 1] \in IdChars THEN RunEnd(s, i + 1) ELSE i

\* A match of the pattern starting at offset i: the offset just after it,
\* or -1.  [\w-]+ is greedy and gives characters back until \b holds.
MatchAt(s, i, isSelector) ==
    LET body == IF isSelector THEN i + 1 ELSE i
        headOk == IF isSelector
                  THEN i < Len(s) /\ s[i + 1] \in {".", "#"}
                  ELSE TRUE
        ends == {j \in (body + 1)..RunEnd(s, body) : Boundary(s, j)}
    IN  IF headOk /\ Boundary(s, body) /\ ends # {}
        THEN CHOOSE j \in ends : \A k \in ends : k <= j
        ELSE -1

\* value.match(idPtrn) with the g flag: the matched texts, left to right,
\* the search resuming after each match; << >> stands for null.
RECURSIVE MatchAll(_, _, _)
MatchAll(s, i, isSelector) ==
    LET from(lastIndex) ==
            LET next(j) ==
                    IF j = -1 THEN MatchAll(s, lastIndex + 1, isSelector)
                    ELSE <<Slice(s, lastIndex, j)>>
                         \o MatchAll(s, j, isSelector)
            IN  IF lastIndex >= Len(s) THEN << >>
                ELSE Apply(next, MatchAt(s, lastIndex, isSelector))
    IN  Apply(from, i)

(***************************************************************************)
(* The texts the model uses: identifier names, literal values, sources.    *)
(***************************************************************************)
Str_foo ==
    <<"f", "o", "o">>
Str_require ==
    <<"r", "e", "q", "u", "i", "r", "e">>
Str_filesystem ==
    <<"f", "i", "l", "e", "s", "y", "s", "t", "e", "m">>
Str_name ==
    <<"n", "a", "m", "e">>
Str_document ==
    <<"d", "o", "c", "u", "m", "e", "n", "t">>
Str_querySelector ==
    <<"q", "u", "e", "r", "y", "S", "e", "l", "e", "c", "t", "o", "r">>
Str_focus ==
    <<"f", "o", "c", "u", "s">>
Str_getElementById ==
    <<"g", "e", "t", "E", "l", "e", "m", "e", "n", "t", "B", "y", "I",
     "d">>
Str_querySelectorAll ==
    <<"q", "u", "e", "r", "y", "S", "e", "l", "e", "c", "t", "o", "r", "A",
     "l", "l">>
Str_getElementsByClassName ==
    <<"g", "e", "t", "E", "l", "e", "m", "e", "n", "t", "s", "B", "y", "C",
     "l", "a", "s", "s", "N", "a", "m", "e">>
Str_getElementsByName ==
    <<"g", "e", "t", "E", "l", "e", "m", "e", "n", "t", "s", "B", "y", "N",
     "a", "m", "e">>
Str_constructor ==
    <<"c", "o", "n", "s", "t", "r", "u", "c", "t", "o", "r">>
SrcRequireFoo ==
    <<"c", "o", "n", "s", "t", " ", "f", "o", "o", " ", "=", " ", "r", "e",
     "q", "u", "i", "r", "e", "(", "\"", ".", "/", "f", "o", "o", "\"",
     ")", ";">>
SrcRequireFs ==
    <<"c", "o", "n", "s", "t", " ", "f", "i", "l", "e", "s", "y", "s", "t",
     "e", "m", " ", "=", " ", "r", "e", "q", "u", "i", "r", "e", "(", "\"",
     "f", "s", "\"", ")", ";">>
SrcRequireName ==
    <<"c", "o", "n", "s", "t", " ", "n", "a", "m", "e", " ", "=", " ",
     "\"", ".", "/", "f", "o", "o", "\"", ",", " ", "f", "o", "o", " ",
     "=", " ", "r", "e", "q", "u", "i", "r", "e", "(", "n", "a", "m", "e",
     ")", ";">>
SrcQuery ==
    <<"d", "o", "c", "u", "m", "e", "n", "t", ".", "q", "u", "e", "r", "y",
     "S", "e", "l", "e", "c", "t", "o", "r", "(", "\"", "#", "l", "o", "g",
     "i", "n", "-", "b", "u", "t", "t", "o", "n", "\"", ")", ".", "f", "o",
     "c", "u", "s", "(", ")", ";">>
SrcWith ==
    <<"x", ";", "\n", "w", "i", "t", "h", " ", "(", "a", ")", " ", "b",
     ";">>
SrcFunc ==
    <<"f", "u", "n", "c", "t", "i", "o", "n", " ", "f", "(", "p", ")", " ",
     "{", "\n", " ", " ", "r", "e", "t", "u", "r", "n", " ", "p", ";",
     "\n", "}">>
SrcNoArg ==
    <<"a", ".", "g", "e", "t", "E", "l", "e", "m", "e", "n", "t", "B", "y",
     "I", "d", "(", ")", ";">>
SrcBad ==
    <<"v", "a", "r", " ", "=", " ", ";">>
SrcModuleOnly ==
    <<"e", "x", "p", "o", "r", "t", " ", "d", "e", "f", "a", "u", "l", "t",
     " ", "a", ";">>
SrcShebang ==
    <<"#", "!", "n", "\n", "a", ";">>
Str_loginButton ==
    <<"l", "o", "g", "i", "n", "-", "b", "u", "t", "t", "o", "n">>
Str_hashLoginButton ==
    <<"#", "l", "o", "g", "i", "n", "-", "b", "u", "t", "t", "o", "n">>
Str_dotSlashFoo ==
    <<".", "/", "f", "o", "o">>
Str_fs ==
    <<"f", "s">>

SrcFor ==
    <<"f", "o", "r", " ", "(", "l", "e", "t", " ", "i", " ", "=", " ", "0",
     ";", " ", "i", " ", "<", " ", "1", "0", ";", " ", "i", "+", "+", ")",
     " ", "{", " ", "a", "r", "r", "[", "i", "]", ";", " ", "}">>
SrcEscaped ==
    <<"a", ".", "g", "e", "t", "E", "l", "e", "m", "e", "n", "t", "B", "y",
     "I", "d", "(", "\"", "x", "\\", "n", "y", "\"", ")", ";">>
(***************************************************************************)
(* Objects of the heap.  A syntax node has cls "node" (it has an own       *)
(* property `type'), a child sequence has cls "array"; the shallow copy    *)
(* Object.assign({}, array) is a plain object, cls "object", neither a     *)
(* node nor an Array.  props lists, in for-in order, the enumerable        *)
(* properties whose value is a node or a sequence: a property holding      *)
(* null, a string, a number or a boolean is never yielded by               *)
(* subAstNodeProps and is not listed.  Object references are heap indices; *)
(* NoRef is undefined.                                                     *)
(***************************************************************************)
NoRef == 0

\* tag types
\* DEF, REF and NOTHING of js-parser.js
TagDEF == "D"
TagREF == "R"
TagNOTHING == "N"
\* what determineTagType returns when no case applies (undefined)
TagUndefined == "undefined"
\* tagType not yet read: the property is still the lazy getter
Unset == "getter"

Prop(key, ref) == [key |-> key, ref |-> ref]

\* The property names of the elements of an array: "0", "1", ...
IndexKeys == <<"0", "1", "2", "3">>

Obj(cls, type, name, line, column, props, value, vkind, shorthand) ==
    [cls |-> cls, type |-> type, name |-> name,
     line |-> line, column |-> column, props |-> props,
     value |-> value, vkind |-> vkind, shorthand |-> shorthand,
     \* what decorateAST and the tagType getter add
     decorated |-> FALSE, hasParent |-> FALSE,
     parentNode |-> NoRef, parentProp |-> "", tagType |-> Unset]

Node(type, line, column, props) ==
    Obj("node", type, EmptyStr, line, column, props, EmptyStr, "none", FALSE)
Ident(name, line, column) ==
    Obj("node", "Identifier", name, line, column, << >>, EmptyStr, "none",
        FALSE)
\* A string literal: value is the string, loc.start the opening quote.
StrLit(value, line, column) ==
    Obj("node", "Literal", EmptyStr, line, column, << >>, value, "string",
        FALSE)
Arr(elems) ==
    Obj("array", "", EmptyStr, 0, 0,
        [i \in 1..Len(elems) |-> Prop(IndexKeys[i], elems[i])],
        EmptyStr, "none", FALSE)

(***************************************************************************)
(* The trees the parser returns, as sequences of objects whose references  *)
(* count from the tree's first object, the Program node.                   *)
(***************************************************************************)
\* const foo = require("./foo");
TreeRequireFoo ==
    << Node("Program", 1, 0, <<Prop("body", 2)>>),
       Arr(<<3>>),
       Node("VariableDeclaration", 1, 0, <<Prop("declarations", 4)>>),
       Arr(<<5>>),
       Node("VariableDeclarator", 1, 6, <<Prop("id", 6), Prop("init", 7)>>),
       Ident(Str_foo, 1, 6),
       Node("CallExpression", 1, 12,
            <<Prop("callee", 8), Prop("arguments", 9)>>),
       Ident(Str_require, 1, 12),
       Arr(<<10>>),
       StrLit(Str_dotSlashFoo, 1, 20) >>

\* const filesystem = require("fs");
TreeRequireFs ==
    << Node("Program", 1, 0, <<Prop("body", 2)>>),
       Arr(<<3>>),
       Node("VariableDeclaration", 1, 0, <<Prop("declarations", 4)>>),
       Arr(<<5>>),
       Node("VariableDeclarator", 1, 6, <<Prop("id", 6), Prop("init", 7)>>),
       Ident(Str_filesystem, 1, 6),
       Node("CallExpression", 1, 19,
            <<Prop("callee", 8), Prop("arguments", 9)>>),
       Ident(Str_require, 1, 19),
       Arr(<<10>>),
       StrLit(Str_fs, 1, 27) >>

\* const name = "./foo", foo = require(name);
TreeRequireName ==
    << Node("Program", 1, 0, <<Prop("body", 2)>>),
       Arr(<<3>>),
       Node("VariableDeclaration", 1, 0, <<Prop("declarations", 4)>>),
       Arr(<<5, 8>>),
       Node("VariableDeclarator", 1, 6, <<Prop("id", 6), Prop("init", 7)>>),
       Ident(Str_name, 1, 6),
       StrLit(Str_dotSlashFoo, 1, 13),
       Node("VariableDeclarator", 1, 22,
            <<Prop("id", 9), Prop("init", 10)>>),
       Ident(Str_foo, 1, 22),
       Node("CallExpression", 1, 28,
            <<Prop("callee", 11), Prop("arguments", 12)>>),
       Ident(Str_require, 1, 28),
       Arr(<<13>>),
       Ident(Str_name, 1, 36) >>

\* document.querySelector("#login-button").focus();
TreeQuery ==
    << Node("Program", 1, 0, <<Prop("body", 2)>>),
       Arr(<<3>>),
       Node("ExpressionStatement", 1, 0, <<Prop("expression", 4)>>),
       Node("CallExpression", 1, 0,
            <<Prop("callee", 5), Prop("arguments", 13)>>),
       Node("MemberExpression", 1, 0,
            <<Prop("object", 6), Prop("property", 12)>>),
       Node("CallExpression", 1, 0,
            <<Prop("callee", 7), Prop("arguments", 10)>>),
       Node("MemberExpression", 1, 0,
            <<Prop("object", 8), Prop("property", 9)>>),
       Ident(Str_document, 1, 0),
       Ident(Str_querySelector, 1, 9),
       Arr(<<11>>),
       StrLit(Str_hashLoginButton, 1, 23),
       Ident(Str_focus, 1, 40),
       Arr(<< >>) >>

\* x;
\* with (a) b;
TreeWith ==
    << Node("Program", 1, 0, <<Prop("body", 2)>>),
       Arr(<<3, 5>>),
       Node("ExpressionStatement", 1, 0, <<Prop("expression", 4)>>),
       Ident(<<"x">>, 1, 0),
       Node("WithStatement", 2, 0, <<Prop("object", 6), Prop("body", 7)>>),
       Ident(<<"a">>, 2, 6),
       Node("ExpressionStatement", 2, 9, <<Prop("expression", 8)>>),
       Ident(<<"b">>, 2, 9) >>

\* function f(p) {
\*   return p;
\* }
TreeFunc ==
    << Node("Program", 1, 0, <<Prop("body", 2)>>),
       Arr(<<3>>),
       Node("FunctionDeclaration", 1, 0,
            <<Prop("id", 4), Prop("params", 5), Prop("body", 7)>>),
       Ident(<<"f">>, 1, 9),
       Arr(<<6>>),
       Ident(<<"p">>, 1, 11),
       Node("BlockStatement", 1, 14, <<Prop("body", 8)>>),
       Arr(<<9>>),
       Node("ReturnStatement", 2, 2, <<Prop("argument", 10)>>),
       Ident(<<"p">>, 2, 9) >>

\* a.getElementById();
TreeNoArg ==
    << Node("Program", 1, 0, <<Prop("body", 2)>>),
       Arr(<<3>>),
       Node("ExpressionStatement", 1, 0, <<Prop("expression", 4)>>),
       Node("CallExpression", 1, 0,
            <<Prop("callee", 5), Prop("arguments", 8)>>),
       Node("MemberExpression", 1, 0,
            <<Prop("object", 6), Prop("property", 7)>>),
       Ident(<<"a">>, 1, 0),
       Ident(Str_getElementById, 1, 2),
       Arr(<< >>) >>

\* export default a;
TreeModuleOnly ==
    << Node("Program", 1, 0, <<Prop("body", 2)>>),
       Arr(<<3>>),
       Node("ExportDefaultDeclaration", 1, 0, <<Prop("declaration", 4)>>),
       Ident(<<"a">>, 1, 15) >>

\* (an empty first line, left by the removal of "#!n")
\* a;
TreeShebang ==
    << Node("Program", 2, 0, <<Prop("body", 2)>>),
       Arr(<<3>>),
       Node("ExpressionStatement", 2, 0, <<Prop("expression", 4)>>),
       Ident(<<"a">>, 2, 0) >>

\* for (let i = 0; i < 10; i++) { arr[i]; }
TreeFor ==
    << Node("Program", 1, 0, <<Prop("body", 2)>>),
       Arr(<<3>>),
       Node("ForStatement", 1, 0, <<Prop("init", 4), Prop("test", 9),
            Prop("update", 12), Prop("body", 14)>>),
       Node("VariableDeclaration", 1, 5, <<Prop("declarations", 5)>>),
       Arr(<<6>>),
       Node("VariableDeclarator", 1, 9, <<Prop("id", 7), Prop("init", 8)>>),
       Ident(<<"i">>, 1, 9),
       Node("Literal", 1, 13, << >>),
       Node("BinaryExpression", 1, 16, <<Prop("left", 10), Prop("right",
            11)>>),
       Ident(<<"i">>, 1, 16),
       Node("Literal", 1, 20, << >>),
       Node("UpdateExpression", 1, 24, <<Prop("argument", 13)>>),
       Ident(<<"i">>, 1, 24),
       Node("BlockStatement", 1, 29, <<Prop("body", 15)>>),
       Arr(<<16>>),
       Node("ExpressionStatement", 1, 31, <<Prop("expression", 17)>>),
       Node("MemberExpression", 1, 31, <<Prop("object", 18),
            Prop("property", 19)>>),
       Ident(<<"a", "r", "r">>, 1, 31),
       Ident(<<"i">>, 1, 35) >>

\* for (let i = 0, n = i + 9; i + n < m; i) { -i; }
TreeForUses ==
    << Node("Program", 1, 0, <<Prop("body", 2)>>),
       Arr(<<3>>),
       Node("ForStatement", 1, 0, <<Prop("init", 4), Prop("test", 14),
            Prop("update", 19), Prop("body", 20)>>),
       Node("VariableDeclaration", 1, 5, <<Prop("declarations", 5)>>),
       Arr(<<6, 9>>),
       Node("VariableDeclarator", 1, 9, <<Prop("id", 7), Prop("init", 8)>>),
       Ident(<<"i">>, 1, 9),
       Node("Literal", 1, 13, << >>),
       Node("VariableDeclarator", 1, 16, <<Prop("id", 10), Prop("init",
            11)>>),
       Ident(<<"n">>, 1, 16),
       Node("BinaryExpression", 1, 20, <<Prop("left", 12), Prop("right",
            13)>>),
       Ident(<<"i">>, 1, 20),
       Node("Literal", 1, 24, << >>),
       Node("BinaryExpression", 1, 27, <<Prop("left", 15), Prop("right",
            18)>>),
       Node("BinaryExpression", 1, 27, <<Prop("left", 16), Prop("right",
            17)>>),
       Ident(<<"i">>, 1, 27),
       Ident(<<"n">>, 1, 31),
       Ident(<<"m">>, 1, 35),
       Ident(<<"i">>, 1, 38),
       Node("BlockStatement", 1, 41, <<Prop("body", 21)>>),
       Arr(<<22>>),
       Node("ExpressionStatement", 1, 43, <<Prop("expression", 23)>>),
       Node("UnaryExpression", 1, 43, <<Prop("argument", 24)>>),
       Ident(<<"i">>, 1, 44) >>

\* for (i = 0; i < 9; i++) { var w; }
TreeForPlain ==
    << Node("Program", 1, 0, <<Prop("body", 2)>>),
       Arr(<<3>>),
       Node("ForStatement", 1, 0, <<Prop("init", 4), Prop("test", 7),
            Prop("update", 10), Prop("body", 12)>>),
       Node("AssignmentExpression", 1, 5, <<Prop("left", 5), Prop("right",
            6)>>),
       Ident(<<"i">>, 1, 5),
       Node("Literal", 1, 9, << >>),
       Node("BinaryExpression", 1, 12, <<Prop("left", 8), Prop("right",
            9)>>),
       Ident(<<"i">>, 1, 12),
       Node("Literal", 1, 16, << >>),
       Node("UpdateExpression", 1, 19, <<Prop("argument", 11)>>),
       Ident(<<"i">>, 1, 19),
       Node("BlockStatement", 1, 24, <<Prop("body", 13)>>),
       Arr(<<14>>),
       Node("VariableDeclaration", 1, 26, <<Prop("declarations", 15)>>),
       Arr(<<16>>),
       Node("VariableDeclarator", 1, 30, <<Prop("id", 17)>>),
       Ident(<<"w">>, 1, 30) >>

\* for (let [i] = a; i < 9; i++) ;
TreeForPattern ==
    << Node("Program", 1, 0, <<Prop("body", 2)>>),
       Arr(<<3>>),
       Node("ForStatement", 1, 0, <<Prop("init", 4), Prop("test", 11),
            Prop("update", 14), Prop("body", 16)>>),
       Node("VariableDeclaration", 1, 5, <<Prop("declarations", 5)>>),
       Arr(<<6>>),
       Node("VariableDeclarator", 1, 9, <<Prop("id", 7), Prop("init", 10)>>),
       Node("ArrayPattern", 1, 9, <<Prop("elements", 8)>>),
       Arr(<<9>>),
       Ident(<<"i">>, 1, 10),
       Ident(<<"a">>, 1, 15),
       Node("BinaryExpression", 1, 18, <<Prop("left", 12), Prop("right",
            13)>>),
       Ident(<<"i">>, 1, 18),
       Node("Literal", 1, 22, << >>),
       Node("UpdateExpression", 1, 25, <<Prop("argument", 15)>>),
       Ident(<<"i">>, 1, 25),
       Node("EmptyStatement", 1, 30, << >>) >>

\* for (var k in o) { var v = o[k]; }
TreeForIn ==
    << Node("Program", 1, 0, <<Prop("body", 2)>>),
       Arr(<<3>>),
       Node("ForInStatement", 1, 0, <<Prop("left", 4), Prop("right", 8),
            Prop("body", 9)>>),
       Node("VariableDeclaration", 1, 5, <<Prop("declarations", 5)>>),
       Arr(<<6>>),
       Node("VariableDeclarator", 1, 9, <<Prop("id", 7)>>),
       Ident(<<"k">>, 1, 9),
       Ident(<<"o">>, 1, 14),
       Node("BlockStatement", 1, 17, <<Prop("body", 10)>>),
       Arr(<<11>>),
       Node("VariableDeclaration", 1, 19, <<Prop("declarations", 12)>>),
       Arr(<<13>>),
       Node("VariableDeclarator", 1, 23, <<Prop("id", 14), Prop("init",
            15)>>),
       Ident(<<"v">>, 1, 23),
       Node("MemberExpression", 1, 27, <<Prop("object", 16),
            Prop("property", 17)>>),
       Ident(<<"o">>, 1, 27),
       Ident(<<"k">>, 1, 29) >>

\* for (var i = function () { var t; }; ;) ;
TreeForInit ==
    << Node("Program", 1, 0, <<Prop("body", 2)>>),
       Arr(<<3>>),
       Node("ForStatement", 1, 0, <<Prop("init", 4), Prop("body", 16)>>),
       Node("VariableDeclaration", 1, 5, <<Prop("declarations", 5)>>),
       Arr(<<6>>),
       Node("VariableDeclarator", 1, 9, <<Prop("id", 7), Prop("init", 8)>>),
       Ident(<<"i">>, 1, 9),
       Node("FunctionExpression", 1, 13, <<Prop("params", 9), Prop("body",
            10)>>),
       Arr(<< >>),
       Node("BlockStatement", 1, 25, <<Prop("body", 11)>>),
       Arr(<<12>>),
       Node("VariableDeclaration", 1, 27, <<Prop("declarations", 13)>>),
       Arr(<<14>>),
       Node("VariableDeclarator", 1, 31, <<Prop("id", 15)>>),
       Ident(<<"t">>, 1, 31),
       Node("EmptyStatement", 1, 40, << >>) >>

\* const o = {a: b, c}, {d: e, f} = o;
TreeProps ==
    << Node("Program", 1, 0, <<Prop("body", 2)>>),
       Arr(<<3>>),
       Node("VariableDeclaration", 1, 0, <<Prop("declarations", 4)>>),
       Arr(<<5, 14>>),
       Node("VariableDeclarator", 1, 6, <<Prop("id", 6), Prop("init", 7)>>),
       Ident(<<"o">>, 1, 6),
       Node("ObjectExpression", 1, 10, <<Prop("properties", 8)>>),
       Arr(<<9, 12>>),
       Node("Property", 1, 11, <<Prop("key", 10), Prop("value", 11)>>),
       Ident(<<"a">>, 1, 11),
       Ident(<<"b">>, 1, 14),
       Obj("node", "Property", EmptyStr, 1, 17, <<Prop("key", 13),
            Prop("value", 13)>>, EmptyStr, "none", TRUE),
       Ident(<<"c">>, 1, 17),
       Node("VariableDeclarator", 1, 21, <<Prop("id", 15), Prop("init",
            22)>>),
       Node("ObjectPattern", 1, 21, <<Prop("properties", 16)>>),
       Arr(<<17, 20>>),
       Node("Property", 1, 22, <<Prop("key", 18), Prop("value", 19)>>),
       Ident(<<"d">>, 1, 22),
       Ident(<<"e">>, 1, 25),
       Obj("node", "Property", EmptyStr, 1, 28, <<Prop("key", 21),
            Prop("value", 21)>>, EmptyStr, "none", TRUE),
       Ident(<<"f">>, 1, 28),
       Ident(<<"o">>, 1, 33) >>

\* x = {g: h};
TreeAssignProps ==
    << Node("Program", 1, 0, <<Prop("body", 2)>>),
       Arr(<<3>>),
       Node("ExpressionStatement", 1, 0, <<Prop("expression", 4)>>),
       Node("AssignmentExpression", 1, 0, <<Prop("left", 5), Prop("right",
            6)>>),
       Ident(<<"x">>, 1, 0),
       Node("ObjectExpression", 1, 4, <<Prop("properties", 7)>>),
       Arr(<<8>>),
       Node("Property", 1, 5, <<Prop("key", 9), Prop("value", 10)>>),
       Ident(<<"g">>, 1, 5),
       Ident(<<"h">>, 1, 8) >>

\* export {foo, bar as baz};
TreeExport ==
    << Node("Program", 1, 0, <<Prop("body", 2)>>),
       Arr(<<3>>),
       Node("ExportNamedDeclaration", 1, 0, <<Prop("specifiers", 4)>>),
       Arr(<<5, 7>>),
       Node("ExportSpecifier", 1, 8, <<Prop("exported", 6), Prop("local",
            6)>>),
       Ident(Str_foo, 1, 8),
       Node("ExportSpecifier", 1, 13, <<Prop("exported", 8), Prop("local",
            9)>>),
       Ident(<<"b", "a", "z">>, 1, 20),
       Ident(<<"b", "a", "r">>, 1, 13) >>

\* import {foo, bar as baz} from "m";
TreeImport ==
    << Node("Program", 1, 0, <<Prop("body", 2)>>),
       Arr(<<3>>),
       Node("ImportDeclaration", 1, 0, <<Prop("specifiers", 4),
            Prop("source", 10)>>),
       Arr(<<5, 7>>),
       Node("ImportSpecifier", 1, 8, <<Prop("local", 6), Prop("imported",
            6)>>),
       Ident(Str_foo, 1, 8),
       Node("ImportSpecifier", 1, 13, <<Prop("local", 8), Prop("imported",
            9)>>),
       Ident(<<"b", "a", "z">>, 1, 20),
       Ident(<<"b", "a", "r">>, 1, 13),
       StrLit(<<"m">>, 1, 30) >>

\* class A { constructor() {} m() {} }
TreeClass ==
    << Node("Program", 1, 0, <<Prop("body", 2)>>),
       Arr(<<3>>),
       Node("ClassDeclaration", 1, 0, <<Prop("id", 4), Prop("body", 5)>>),
       Ident(<<"A">>, 1, 6),
       Node("ClassBody", 1, 8, <<Prop("body", 6)>>),
       Arr(<<7, 13>>),
       Node("MethodDefinition", 1, 10, <<Prop("key", 8), Prop("value", 9)>>),
       Ident(Str_constructor, 1, 10),
       Node("FunctionExpression", 1, 21, <<Prop("params", 10), Prop("body",
            11)>>),
       Arr(<< >>),
       Node("BlockStatement", 1, 24, <<Prop("body", 12)>>),
       Arr(<< >>),
       Node("MethodDefinition", 1, 27, <<Prop("key", 14), Prop("value",
            15)>>),
       Ident(<<"m">>, 1, 27),
       Node("FunctionExpression", 1, 28, <<Prop("params", 16), Prop("body",
            17)>>),
       Arr(<< >>),
       Node("BlockStatement", 1, 31, <<Prop("body", 18)>>),
       Arr(<< >>) >>

\* a.querySelector.b("#x");
TreeChain ==
    << Node("Program", 1, 0, <<Prop("body", 2)>>),
       Arr(<<3>>),
       Node("ExpressionStatement", 1, 0, <<Prop("expression", 4)>>),
       Node("CallExpression", 1, 0, <<Prop("callee", 5), Prop("arguments",
            10)>>),
       Node("MemberExpression", 1, 0, <<Prop("object", 6), Prop("property",
            9)>>),
       Node("MemberExpression", 1, 0, <<Prop("object", 7), Prop("property",
            8)>>),
       Ident(<<"a">>, 1, 0),
       Ident(Str_querySelector, 1, 2),
       Ident(<<"b">>, 1, 16),
       Arr(<<11>>),
       StrLit(<<"#", "x">>, 1, 18) >>

\* querySelector.bind("#y");
TreeObjectPosition ==
    << Node("Program", 1, 0, <<Prop("body", 2)>>),
       Arr(<<3>>),
       Node("ExpressionStatement", 1, 0, <<Prop("expression", 4)>>),
       Node("CallExpression", 1, 0, <<Prop("callee", 5), Prop("arguments",
            8)>>),
       Node("MemberExpression", 1, 0, <<Prop("object", 6), Prop("property",
            7)>>),
       Ident(Str_querySelector, 1, 0),
       Ident(<<"b", "i", "n", "d">>, 1, 14),
       Arr(<<9>>),
       StrLit(<<"#", "y">>, 1, 19) >>

\* f(a.getElementById, "z");
TreeArgument ==
    << Node("Program", 1, 0, <<Prop("body", 2)>>),
       Arr(<<3>>),
       Node("ExpressionStatement", 1, 0, <<Prop("expression", 4)>>),
       Node("CallExpression", 1, 0, <<Prop("callee", 5), Prop("arguments",
            6)>>),
       Ident(<<"f">>, 1, 0),
       Arr(<<7, 10>>),
       Node("MemberExpression", 1, 2, <<Prop("object", 8), Prop("property",
            9)>>),
       Ident(<<"a">>, 1, 2),
       Ident(Str_getElementById, 1, 4),
       StrLit(<<"z">>, 1, 20) >>

\* a.getElementsByName(z);
TreeNotLiteral ==
    << Node("Program", 1, 0, <<Prop("body", 2)>>),
       Arr(<<3>>),
       Node("ExpressionStatement", 1, 0, <<Prop("expression", 4)>>),
       Node("CallExpression", 1, 0, <<Prop("callee", 5), Prop("arguments",
            8)>>),
       Node("MemberExpression", 1, 0, <<Prop("object", 6), Prop("property",
            7)>>),
       Ident(<<"a">>, 1, 0),
       Ident(Str_getElementsByName, 1, 2),
       Arr(<<9>>),
       Ident(<<"z">>, 1, 20) >>

\* a.getElementsByClassName("u v");
TreeClassName ==
    << Node("Program", 1, 0, <<Prop("body", 2)>>),
       Arr(<<3>>),
       Node("ExpressionStatement", 1, 0, <<Prop("expression", 4)>>),
       Node("CallExpression", 1, 0, <<Prop("callee", 5), Prop("arguments",
            8)>>),
       Node("MemberExpression", 1, 0, <<Prop("object", 6), Prop("property",
            7)>>),
       Ident(<<"a">>, 1, 0),
       Ident(Str_getElementsByClassName, 1, 2),
       Arr(<<9>>),
       StrLit(<<"u", " ", "v">>, 1, 25) >>

\* a.querySelectorAll("p.u, #v");
TreeQueryAll ==
    << Node("Program", 1, 0, <<Prop("body", 2)>>),
       Arr(<<3>>),
       Node("ExpressionStatement", 1, 0, <<Prop("expression", 4)>>),
       Node("CallExpression", 1, 0, <<Prop("callee", 5), Prop("arguments",
            8)>>),
       Node("MemberExpression", 1, 0, <<Prop("object", 6), Prop("property",
            7)>>),
       Ident(<<"a">>, 1, 0),
       Ident(Str_querySelectorAll, 1, 2),
       Arr(<<9>>),
       StrLit(<<"p", ".", "u", ",", " ", "#", "v">>, 1, 19) >>

\* a.getElementById(5);
TreeNumber ==
    << Node("Program", 1, 0, <<Prop("body", 2)>>),
       Arr(<<3>>),
       Node("ExpressionStatement", 1, 0, <<Prop("expression", 4)>>),
       Node("CallExpression", 1, 0, <<Prop("callee", 5), Prop("arguments",
            8)>>),
       Node("MemberExpression", 1, 0, <<Prop("object", 6), Prop("property",
            7)>>),
       Ident(<<"a">>, 1, 0),
       Ident(Str_getElementById, 1, 2),
       Arr(<<9>>),
       Node("Literal", 1, 17, << >>) >>

\* a.getElementById("x\ny");
TreeEscaped ==
    << Node("Program", 1, 0, <<Prop("body", 2)>>),
       Arr(<<3>>),
       Node("ExpressionStatement", 1, 0, <<Prop("expression", 4)>>),
       Node("CallExpression", 1, 0, <<Prop("callee", 5), Prop("arguments",
            8)>>),
       Node("MemberExpression", 1, 0, <<Prop("object", 6), Prop("property",
            7)>>),
       Ident(<<"a">>, 1, 0),
       Ident(Str_getElementById, 1, 2),
       Arr(<<9>>),
       StrLit(<<"x", "\n", "y">>, 1, 17) >>

\* a.<name>("<text>"); or, for a text of several lines, the same call on
\* the template literal `<text>`.  The first quasi starts where the
\* template literal starts, at the backquote.
CallTree(name, text) ==
    LET column == 2 + Len(name) + 1
        call == << Node("Program", 1, 0, <<Prop("body", 2)>>),
                   Arr(<<3>>),
                   Node("ExpressionStatement", 1, 0,
                        <<Prop("expression", 4)>>),
                   Node("CallExpression", 1, 0,
                        <<Prop("callee", 5), Prop("arguments", 8)>>),
                   Node("MemberExpression", 1, 0,
                        <<Prop("object", 6), Prop("property", 7)>>),
                   Ident(<<"a">>, 1, 0),
                   Ident(name, 1, 2),
                   Arr(<<9>>) >>
    IN  IF \E k \in 1..Len(text) : text[k] = "\n"
        THEN call \o
             << Node("TemplateLiteral", 1, column,
                     <<Prop("quasis", 10), Prop("expressions", 12)>>),
                Arr(<<11>>),
                Obj("node", "TemplateElement", EmptyStr, 1, column, << >>,
                    text, "string", FALSE),
                Arr(<< >>) >>
        ELSE call \o << StrLit(text, 1, column) >>

\* A tree in which one node that has a sequence among its children, the
\* call f(x), stands at two places: both elements of `expressions'.
TreeSharedCall ==
    << Node("Program", 1, 0, <<Prop("body", 2)>>),
       Arr(<<3>>),
       Node("ExpressionStatement", 1, 0, <<Prop("expression", 4)>>),
       Node("SequenceExpression", 1, 0, <<Prop("expressions", 5)>>),
       Arr(<<6, 6>>),
       Node("CallExpression", 1, 0,
            <<Prop("callee", 7), Prop("arguments", 8)>>),
       Ident(<<"f">>, 1, 0),
       Arr(<<9>>),
       Ident(<<"x">>, 1, 2) >>


\* Where the text that follows `text' starts, when `text' starts at
\* (line, column).
After(line, column, text) ==
    LET breaks == {i \in 1..Len(text) : text[i] = "\n"}
        last == CHOOSE i \in breaks : \A j \in breaks : j <= i
    IN  IF breaks = {} THEN [line |-> line, column |-> column + Len(text)]
        ELSE [line |-> line + Cardinality(breaks),
              column |-> Len(text) - last]

\* a.<name>(`<head>${x}<tail>`);  The first quasi starts at the backquote,
\* the second at the brace that ends the interpolation.
TemplateTree(name, head, tail) ==
    LET column == 2 + Len(name) + 1
        dollar == After(1, column + 1, head)
    IN  << Node("Program", 1, 0, <<Prop("body", 2)>>),
           Arr(<<3>>),
           Node("ExpressionStatement", 1, 0, <<Prop("expression", 4)>>),
           Node("CallExpression", 1, 0,
                <<Prop("callee", 5), Prop("arguments", 8)>>),
           Node("MemberExpression", 1, 0,
                <<Prop("object", 6), Prop("property", 7)>>),
           Ident(<<"a">>, 1, 0),
           Ident(name, 1, 2),
           Arr(<<9>>),
           Node("TemplateLiteral", 1, column,
                <<Prop("quasis", 10), Prop("expressions", 13)>>),
           Arr(<<11, 12>>),
           Obj("node", "TemplateElement", EmptyStr, 1, column, << >>,
               head, "string", FALSE),
           Obj("node", "TemplateElement", EmptyStr, dollar.line,
               dollar.column + 3, << >>, tail, "string", FALSE),
           Arr(<<14>>),
           Ident(<<"x">>, dollar.line, dollar.column + 2) >>
(***************************************************************************)
(* esprima.parse(aSourceCodes, option): a tree, or an error that carries   *)
(* lineNumber and description.  option.sourceType is "script" by default   *)
(* and "module" in the retry.  SrcBad is invalid under both grammars;      *)
(* SrcModuleOnly stands for a text the parser rejects as a script and      *)
(* accepts as a module; `with' is not allowed in module code.              *)
(***************************************************************************)
ParseOk(tree) == [ok |-> TRUE, tree |-> tree]
ParseError(lineNumber, description) ==
    [ok |-> FALSE, lineNumber |-> lineNumber, description |-> description]

ParseResult(src, sourceType) ==
    CASE src = SrcRequireFoo -> ParseOk(TreeRequireFoo)
      [] src = SrcRequireFs -> ParseOk(TreeRequireFs)
      [] src = SrcRequireName -> ParseOk(TreeRequireName)
      [] src = SrcQuery -> ParseOk(TreeQuery)
      [] src = SrcFunc -> ParseOk(TreeFunc)
      [] src = SrcNoArg -> ParseOk(TreeNoArg)
      [] src = SrcFor -> ParseOk(TreeFor)
      [] src = SrcEscaped -> ParseOk(TreeEscaped)
      [] src = StripShebang(SrcShebang) -> ParseOk(TreeShebang)
      [] src = SrcWith ->
            IF sourceType = "script" THEN ParseOk(TreeWith)
            ELSE ParseError(2, "Unexpected token with")
      [] src = SrcModuleOnly ->
            IF sourceType = "module" THEN ParseOk(TreeModuleOnly)
            ELSE ParseError(1, "Unexpected token export")
      [] OTHER -> ParseError(1, "Unexpected token =")

(***************************************************************************)
(* The heap                                                                *)
(***************************************************************************)
\* A tree the parser has just built: new objects after those of h.
AllocTreeShared(h, tree) ==
    IF h = << >>
    THEN [heap |-> tree, root |-> 1]
    ELSE [heap |-> h, root |-> 1]

AllocTree(h, tree) ==
    LET base == Len(h)
        moved(o) ==
            [o EXCEPT !.props =
                [k \in 1..Len(o.props) |->
                    Prop(o.props[k].key, o.props[k].ref + base)]]
    IN  [heap |-> h \o [i \in 1..Len(tree) |-> moved(tree[i])],
         root |-> base + 1]

\* node[key], for a property that holds a node or a sequence
Get(h, id, key) ==
    LET hits == {k \in 1..Len(h[id].props) : h[id].props[k].key = key}
    IN  IF id = NoRef \/ hits = {} THEN NoRef
        ELSE h[id].props[CHOOSE k \in hits : TRUE].ref

\* The elements of an array, in index order.
Elements(h, arr) ==
    IF arr = NoRef THEN << >>
    ELSE [k \in 1..Len(h[arr].props) |-> h[arr].props[k].ref]

IsNode(h, id) == id # NoRef /\ h[id].cls = "node"
IsArray(h, id) == id # NoRef /\ h[id].cls = "array"

\* The indices in props of the properties subAstNodeProps yields.
SubAstNodeProps(h, id) ==
    IF ~(IsNode(h, id) \/ IsArray(h, id)) THEN << >>
    ELSE LET P == h[id].props
             yields(k) == IsNode(h, P[k].ref) \/ IsArray(h, P[k].ref)
         IN  SelectSeq([k \in 1..Len(P) |-> k], yields)

ShallowCopyUnnamed(o) ==
    [o EXCEPT !.cls = IF o.cls = "array" THEN "object" ELSE o.cls,
              !.name = EmptyStr,
              !.decorated = FALSE, !.hasParent = FALSE,
              !.parentNode = NoRef, !.parentProp = "", !.tagType = Unset]

\* Object.assign({}, o): the enumerable own properties of o.  The
\* properties decorateAST defines are not enumerable and are not copied;
\* the copy of an Array is not an Array.
ShallowCopy(o) ==
    [o EXCEPT !.cls = IF o.cls = "array" THEN "object" ELSE o.cls,
              !.decorated = FALSE, !.hasParent = FALSE,
              !.parentNode = NoRef, !.parentProp = "",
              !.tagType = Unset]

RECURSIVE DecorateAST(_, _)
RECURSIVE DecorateProps(_, _, _)

\* The loop of decorateAST over subAstNodeProps(aAstNode), from the k-th
\* property on.  subAstNodeProps yields nothing for an object that is
\* neither a node nor an Array, as the copy of an Array is.
DecorateProps(heapBefore, id, k) ==
    LET loop(h) ==
            IF k > Len(h[id].props) THEN h
            ELSE IF ~(IsNode(h, id) \/ IsArray(h, id)) THEN h
            ELSE
            LET child == h[id].props[k].ref
                copied == h[child].hasParent
                sub == IF copied THEN Len(h) + 1 ELSE child
                h1 == IF copied
                      THEN [Append(h, ShallowCopy(h[child]))
                               EXCEPT ![id].props[k].ref = sub]
                      ELSE h
                h2 == [h1 EXCEPT ![sub].hasParent = TRUE,
                                 ![sub].parentNode = id,
                                 ![sub].parentProp = h[id].props[k].key]
            IN  IF ~(IsNode(h, child) \/ IsArray(h, child))
                THEN DecorateProps(h, id, k + 1)
                ELSE DecorateProps(DecorateAST(h2, sub), id, k + 1)
    IN  Apply(loop, heapBefore)

DecorateAST(h, id) ==
    DecorateProps([h EXCEPT ![id].decorated = TRUE], id, 1)

\* this.descendants(aType), in the order the generator yields
RECURSIVE FindDescendants(_, _, _)
RECURSIVE DescendantsFrom(_, _, _, _)
DescendantsFrom(h, id, aType, ks) ==
    IF ks = << >> THEN << >>
    ELSE LET subNode == h[id].props[Head(ks)].ref
         IN  (IF h[subNode].type = aType THEN <<subNode>> ELSE << >>)
             \o FindDescendants(h, subNode, aType)
             \o DescendantsFrom(h, id, aType, Tail(ks))

FindDescendants(h, id, aType) ==
    DescendantsFrom(h, id, aType, SubAstNodeProps(h, id))

\* this.getAncestor(aType): the search starts from the parent link of
\* this.parentNode.
RECURSIVE AncestorLoop(_, _, _, _)
AncestorLoop(h, parentNode, parentProp, aType) ==
    IF parentNode # NoRef
       /\ (IsArray(h, parentNode) \/ h[parentNode].type # aType)
    THEN AncestorLoop(h, h[parentNode].parentNode,
                      h[parentNode].parentProp, aType)
    ELSE [node |-> parentNode, prop |-> parentProp]

AstGetAncestorNode(h, id, aType) ==
    LET p == h[id].parentNode
    IN  AncestorLoop(h, h[p].parentNode, h[p].parentProp, aType)

\* this.path: the segments from the root down to the node
RECURSIVE PathGetter(_, _)
PathGetter(h, n) ==
    IF h[n].parentNode = NoRef THEN << >>
    ELSE LET p == h[n].parentNode
         IN  Append(PathGetter(h, p),
                    IF IsArray(h, p)
                    THEN [array |-> TRUE, type |-> "",
                          prop |-> h[n].parentProp]
                    ELSE [array |-> FALSE, type |-> h[p].type,
                          prop |-> h[n].parentProp])

(***************************************************************************)
(* determineTagType                                                        *)
(***************************************************************************)
\* getNonArrayParent
RECURSIVE NonArrayParentLoop(_, _, _)
NonArrayParentLoop(h, parentNode, parentProp) ==
    IF IsArray(h, parentNode)
    THEN NonArrayParentLoop(h, h[parentNode].parentNode,
                            h[parentNode].parentProp)
    ELSE [parentNode |-> parentNode, parentProp |-> parentProp]

ImmediateParent(h, id) ==
    [parentNode |-> h[id].parentNode, parentProp |-> h[id].parentProp]

GetNonArrayParent(h, id) ==
    NonArrayParentLoop(h, h[id].parentNode, h[id].parentProp)

Definitions ==
    { <<"ClassDeclaration", "id">>,
      <<"ConditionalExpression", "consequent">>,
      <<"ExportDefaultDeclaration", "declaration">>,
      <<"FunctionDeclaration", "id">>,
      <<"FunctionExpression", "id">>,
      <<"ImportNamespaceSpecifier", "local">>,
      <<"LabeledStatement", "label">>,
      <<"ArrayPattern", "elements">> }

References ==
    { <<"ArrayExpression", "elements">>,
      <<"ArrowFunctionExpression", "body">>,
      <<"AssignmentExpression", "right">>,
      <<"BreakStatement", "label">>,
      <<"CallExpression", "arguments">>,
      <<"CallExpression", "callee">>,
      <<"ClassDeclaration", "superClass">>,
      <<"ConditionalExpression", "alternate">>,
      <<"ConditionalExpression", "test">>,
      <<"ContinueStatement", "label">>,
      <<"DoWhileStatement", "test">>,
      <<"ForInStatement", "right">>,
      <<"ForOfStatement", "right">>,
      <<"ForStatement", "test">>,
      <<"IfStatement", "test">>,
      <<"ImportDefaultSpecifier", "local">>,
      <<"ImportSpecifier", "imported">>,
      <<"LogicalExpression", "left">>,
      <<"LogicalExpression", "right">>,
      <<"MemberExpression", "object">>,
      <<"MemberExpression", "property">>,
      <<"NewExpression", "arguments">>,
      <<"NewExpression", "callee">>,
      <<"Property", "value">>,
      <<"ReturnStatement", "argument">>,
      <<"SequenceExpression", "expressions">>,
      <<"SpreadElement", "argument">>,
      <<"SwitchCase", "test">>,
      <<"SwitchStatement", "discriminant">>,
      <<"TaggedTemplateExpression", "tag">>,
      <<"TemplateLiteral", "expressions">>,
      <<"ThrowStatement", "argument">>,
      <<"VariableDeclarator", "init">>,
      <<"WhileStatement", "test">>,
      <<"YieldExpression", "argument">>,
      <<"ExpressionStatement", "expression">> }

Ignored ==
    { <<"ArrowFunctionExpression", "params">>,
      <<"AssignmentExpression", "left">>,
      <<"AssignmentPattern", "left">>,
      <<"CatchClause", "param">>,
      <<"ClassExpression", "id">>,
      <<"ExportSpecifier", "local">>,
      <<"ForInStatement", "left">>,
      <<"ForOfStatement", "left">>,
      <<"FunctionExpression", "params">>,
      <<"RestElement", "argument">>,
      <<"FunctionDeclaration", "params">> }

LoopOperands ==
    { <<"BinaryExpression", "left">>,
      <<"BinaryExpression", "right">>,
      <<"UpdateExpression", "argument">>,
      <<"UnaryExpression", "argument">> }

IsForStatementDefinedVariable(h, aForStatementNode, aName) ==
    LET init == Get(h, aForStatementNode, "init")
        declarations == Elements(h, Get(h, init, "declarations"))
        declares(e) ==
            /\ h[e].type = "VariableDeclarator"
            /\ LET id == Get(h, e, "id")
               IN  /\ id # NoRef
                   /\ h[id].type = "Identifier"
                   /\ h[id].name = aName
    IN  /\ init # NoRef
        /\ h[init].type = "VariableDeclaration"
        /\ \E k \in 1..Len(declarations) : declares(declarations[k])

IsForStatementInternalId(h, id) ==
    LET anc == AstGetAncestorNode(h, id, "ForStatement")
    IN  /\ anc.node # NoRef
        /\ anc.prop \in {"test", "update"}
        /\ IsForStatementDefinedVariable(h, anc.node, h[id].name)

PropertyKeyTypeIdSide(h, id, parentNode) ==
    IF h[parentNode].shorthand THEN TagNOTHING
    ELSE LET anc == AstGetAncestorNode(h, id, "VariableDeclarator")
         IN  IF anc.node # NoRef /\ anc.prop = "id" THEN TagDEF ELSE TagREF

\* case 'Property.key'
PropertyKeyType(h, id, parentNode) ==
    IF h[parentNode].shorthand THEN TagNOTHING
    ELSE LET anc == AstGetAncestorNode(h, id, "VariableDeclarator")
             key == Get(h, parentNode, "key")
             value == Get(h, parentNode, "value")
         IN  IF anc.node # NoRef /\ anc.prop = "init" /\ key # value
             THEN TagDEF
             ELSE IF anc.node # NoRef /\ anc.prop = "id" /\ key = value
             THEN TagDEF
             ELSE TagREF

\* case 'VariableDeclarator.id'
DeclaratorIdType(h, id) ==
    LET forIn == AstGetAncestorNode(h, id, "ForInStatement")
        for == AstGetAncestorNode(h, id, "ForStatement")
    IN  IF forIn.node # NoRef /\ forIn.prop = "left" THEN TagNOTHING
        ELSE IF for.node # NoRef /\ for.prop = "init" THEN TagNOTHING
        ELSE TagDEF

DetermineTagType(h, id) ==
    IF h[id].type # "Identifier" THEN TagNOTHING
    ELSE
    LET np == GetNonArrayParent(h, id)
        parentNode == np.parentNode
        name == h[id].name
        key == <<h[parentNode].type, np.parentProp>>
    IN  CASE key \in Definitions -> TagDEF
          [] key = <<"ExportSpecifier", "exported">> ->
                IF h[Get(h, parentNode, "local")].name = name
                THEN TagNOTHING ELSE TagDEF
          [] key = <<"MethodDefinition", "key">> ->
                IF name = Str_constructor THEN TagNOTHING ELSE TagDEF
          [] key = <<"ImportSpecifier", "local">> ->
                IF h[Get(h, parentNode, "imported")].name # name
                THEN TagDEF ELSE TagREF
          [] key = <<"Property", "key">> ->
                PropertyKeyType(h, id, parentNode)
          [] key = <<"VariableDeclarator", "id">> ->
                DeclaratorIdType(h, id)
          [] key \in LoopOperands ->
                IF IsForStatementInternalId(h, id) THEN TagNOTHING ELSE TagREF
          [] key = <<"ForStatement", "update">> ->
                IF IsForStatementDefinedVariable(h, parentNode, name)
                THEN TagNOTHING ELSE TagREF
          [] key \in References -> TagREF
          [] key \in Ignored -> TagNOTHING
          [] OTHER -> TagUndefined

\* The tagType property: the lazy getter on the first read, the value it
\* stored on every later one.
TagTypeOf(h, id) ==
    IF h[id].tagType = Unset THEN DetermineTagType(h, id)
    ELSE h[id].tagType

(***************************************************************************)
(* tagInfoFromLiteral                                                      *)
(***************************************************************************)
\* The lines searched until one holds the token: the index of that line
\* and the token's column in it; failed when the search steps past the
\* last line (splitStrings[n] is undefined: a TypeError).
RECURSIVE FindToken(_, _, _)
FindToken(splitStrings, id, nLineOffset) ==
    IF nLineOffset >= Len(splitStrings)
    THEN [failed |-> TRUE, nLineOffset |-> nLineOffset, nColOffset |-> -1]
    ELSE LET nColOffset == IndexOf(splitStrings[nLineOffset + 1], id)
         IN  IF nColOffset = -1
             THEN FindToken(splitStrings, id, nLineOffset + 1)
             ELSE [failed |-> FALSE, nLineOffset |-> nLineOffset,
                   nColOffset |-> nColOffset]

LiteralColumnNoQuote(nLineOffset, column, prefixLen, nColOffset) ==
    IF nLineOffset # 0 THEN prefixLen + nColOffset
    ELSE column + prefixLen + nColOffset

\* The column of a tag found in a literal; 1 for the quotation mark that
\* begins the literal.
LiteralColumn(nLineOffset, column, prefixLen, nColOffset) ==
    IF nLineOffset # 0 THEN prefixLen + nColOffset
    ELSE 1 + column + prefixLen + nColOffset

LiteralTextLastQuasi(h, aLiteralNode) ==
    IF h[aLiteralNode].type = "Literal"
    THEN [isString |-> h[aLiteralNode].vkind = "string",
          value |-> h[aLiteralNode].value,
          line |-> h[aLiteralNode].line,
          column |-> h[aLiteralNode].column]
    ELSE LET quasis == Get(h, aLiteralNode, "quasis")
             quasi == h[quasis].props[Len(h[quasis].props)].ref
         IN  [isString |-> TRUE,
              value |-> h[quasi].value,
              line |-> h[quasi].line,
              column |-> h[quasi].column]

\* The text and the start of the literal: a Literal's value, or the raw
\* text of the first quasi of a TemplateLiteral.
LiteralText(h, aLiteralNode) ==
    IF h[aLiteralNode].type = "Literal"
    THEN [isString |-> h[aLiteralNode].vkind = "string",
          value |-> h[aLiteralNode].value,
          line |-> h[aLiteralNode].line,
          column |-> h[aLiteralNode].column]
    ELSE LET quasi == Get(h, Get(h, aLiteralNode, "quasis"), "0")
         IN  [isString |-> TRUE,
              value |-> h[quasi].value,
              line |-> h[quasi].line,
              column |-> h[quasi].column]

\* The tagInfo objects the generator yields, in order, and whether it
\* ended by throwing (value.match is not a function on a value that is
\* not a string; the line search stepping past the last line).
TagInfoFromLiteral(h, aLiteralNode, isSelector) ==
    LET lit == LiteralText(h, aLiteralNode)
        prefixLen == IF isSelector THEN 1 ELSE 0
        scan(ids) ==
            LET splitStrings == Split(lit.value)
                found(k) == FindToken(splitStrings, ids[k], 0)
                bad == {k \in 1..Len(ids) : found(k).failed}
                n == IF bad = {} THEN Len(ids)
                     ELSE (CHOOSE k \in bad : \A j \in bad : k <= j) - 1
            IN  [threw |-> bad # {},
                 infos |->
                   [k \in 1..n |->
                       [type |-> TagREF,
                        line |-> lit.line + found(k).nLineOffset,
                        column |-> LiteralColumn(found(k).nLineOffset,
                                       lit.column, prefixLen,
                                       found(k).nColOffset),
                        name |-> Slice(ids[k], prefixLen, Len(ids[k]))]]]
    IN  IF ~lit.isString THEN [threw |-> TRUE, infos |-> << >>]
        ELSE Apply(scan, MatchAll(lit.value, 0, isSelector))

(***************************************************************************)
(* The getters decorateAST defines: tagInfo and tags                       *)
(***************************************************************************)
TagInfo(h, id) ==
    [type |-> TagTypeOf(h, id), name |-> h[id].name,
     line |-> h[id].line, column |-> h[id].column]

selectors ==
    { Str_querySelector, Str_querySelectorAll, Str_getElementById,
      Str_getElementsByClassName, Str_getElementsByName }

OwnTagAlways(tagType, tagInfo) ==
    IF tagType \in {TagDEF, TagREF, TagNOTHING} THEN <<tagInfo>> ELSE << >>

\* switch (tagType): TagDEF and TagREF yield the node itself
OwnTag(tagType, tagInfo) ==
    IF tagType \in {TagDEF, TagREF} THEN <<tagInfo>> ELSE << >>

\* while (callExpression.type === 'MemberExpression')
RECURSIVE SkipMemberExpressions(_, _)
SkipMemberExpressions(h, callExpression) ==
    IF callExpression # NoRef /\ h[callExpression].type = "MemberExpression"
    THEN SkipMemberExpressions(h, h[callExpression].parentNode)
    ELSE callExpression

\* What the tags generator yields after the node itself: the tagInfo
\* objects found in the literal, and whether it threw (selector is
\* undefined when the call has no argument).
LiteralTags(h, id) ==
    LET name == h[id].name
        parentNode == h[id].parentNode
        callExpression == SkipMemberExpressions(h, parentNode)
        selector == Get(h, Get(h, callExpression, "arguments"), "0")
    IN  IF name \in selectors /\ h[parentNode].type = "MemberExpression"
           /\ callExpression # NoRef
           /\ h[callExpression].type = "CallExpression"
        THEN IF selector = NoRef THEN [threw |-> TRUE, infos |-> << >>]
             ELSE IF h[selector].type \in {"Literal", "TemplateLiteral"}
             THEN TagInfoFromLiteral(h, selector,
                                     StartsWith(name, Str_querySelector))
             ELSE [threw |-> FALSE, infos |-> << >>]
        ELSE [threw |-> FALSE, infos |-> << >>]

\* identifier.tags, consumed by the loop of tagAST: the tagInfo of each
\* yielded node, and whether the generator threw after them.
Tags(h, id) ==
    LET tagType == TagTypeOf(h, id)
        own == OwnTag(tagType, TagInfo(h, id))
        lit == LiteralTags(h, id)
    IN  IF tagType \in {TagDEF, TagREF, TagNOTHING}
        THEN [threw |-> lit.threw, infos |-> own \o lit.infos,
              nOwn |-> Len(own)]
        ELSE [threw |-> FALSE, infos |-> << >>, nOwn |-> 0]

(***************************************************************************)
(* tagAST                                                                  *)
(***************************************************************************)
ShiftTagTwice(tagInfo, aFile, sources, aLineOffset, aColumnOffset) ==
    [type |-> tagInfo.type, name |-> tagInfo.name, path |-> aFile,
     ref |-> At(sources, tagInfo.line - 1),
     line |-> tagInfo.line + aLineOffset + aLineOffset,
     column |-> tagInfo.column + 1 + aColumnOffset + 1 + aColumnOffset]

\* The body of the inner loop: path, ref, and the shift of line and column.
ShiftTag(tagInfo, aFile, sources, aLineOffset, aColumnOffset) ==
    [type |-> tagInfo.type, name |-> tagInfo.name, path |-> aFile,
     ref |-> At(sources, tagInfo.line - 1),
     line |-> tagInfo.line + aLineOffset,
     column |-> tagInfo.column + 1 + aColumnOffset]

NeverUnknown(tagType) == FALSE

\* if (!identifier.tagType)
IsUnknown(tagType) == tagType = TagUndefined

PushFront(tags, new) == new \o tags

\* tags.push(tagInfo), for each of `new' in turn
Push(tags, new) == tags \o new

\* The message tagAST writes for an identifier of unknown type.
UnknownMessage(h, id, aFile, sources) ==
    [kind |-> "Unknown Identifier", name |-> h[id].name, path |-> aFile,
     line |-> h[id].line, column |-> h[id].column + 1,
     ref |-> At(sources, h[id].line - 1), astPath |-> PathGetter(h, id)]

(***************************************************************************)
(* tagJavaScript up to the loop of tagAST                                  *)
(***************************************************************************)
PreconditionEither(aSourceCodes, aPath) ==
    aSourceCodes # EmptyStr \/ aPath # ""

\* if (!aSourceCodes || !aPath) throw new TypeError(...): what lets the
\* call go on
Precondition(aSourceCodes, aPath) ==
    aSourceCodes # EmptyStr /\ aPath # ""

\* The catch block of parseJS: the parse as a module; its tree is returned
\* as the parser built it.
ParseModule(h, aSourceCodes) ==
    LET r == ParseResult(aSourceCodes, "module")
        a == AllocTree(h, r.tree)
    IN  IF r.ok
        THEN [ok |-> TRUE, heap |-> a.heap, ast |-> a.root, parses |-> 2]
        ELSE [ok |-> FALSE, heap |-> h, ast |-> NoRef, parses |-> 2,
              lineNumber |-> r.lineNumber, description |-> r.description]

\* parseJS.  Object.defineProperties throws on an object that already has
\* the properties decorateAST defines, which also ends the try block.
ParseJS(h, aSourceCodes) ==
    LET r == ParseResult(aSourceCodes, "script")
        a == AllocTree(h, r.tree)
    IN  IF r.ok /\ ~a.heap[a.root].decorated
        THEN [ok |-> TRUE, heap |-> DecorateAST(a.heap, a.root),
              ast |-> a.root, parses |-> 1]
        ELSE ParseModule(h, aSourceCodes)

\* The exit code of the process: none while it runs, 10 after
\* process.exit(10), the errno of a failed read after exitWithError.
NotExited == ""
ExitSyntaxError == "10"
ExitErrno == "errno"

PreconditionError == "TypeError: Source code and its path must be given."
NotAFunctionError == "TypeError: aAST.descendants is not a function"
\* selector is undefined, or value.match is not a function
ScanError == "TypeError"

\* tagJavaScript(aSourceCodes, aPath, aLineOffset, aColumnOffset) up to
\* the first iteration of the loop of tagAST.
Enter(h, aSourceCodes, aPath, aLineOffset) ==
    LET stay == [pc |-> "threw", heap |-> h, ast |-> NoRef,
                 idents |-> << >>, parses |-> 0, stderr |-> << >>,
                 error |-> "", exit |-> FALSE]
        parsed(p) ==
            IF ~p.ok
            THEN [stay EXCEPT
                    !.pc = "exited", !.parses = p.parses, !.exit = TRUE,
                    !.stderr = <<[kind |-> "Syntax Error", path |-> aPath,
                                  line |-> p.lineNumber + aLineOffset,
                                  description |-> p.description]>>]
            ELSE IF ~p.heap[p.ast].decorated
            THEN [stay EXCEPT
                    !.heap = p.heap, !.ast = p.ast, !.parses = p.parses,
                    !.error = NotAFunctionError]
            ELSE [stay EXCEPT
                    !.pc = "walking", !.heap = p.heap, !.ast = p.ast,
                    !.parses = p.parses,
                    !.idents = FindDescendants(p.heap, p.ast, "Identifier")]
    IN  IF ~Precondition(aSourceCodes, aPath)
        THEN [stay EXCEPT
                !.error = PreconditionError]
        ELSE Apply(parsed, ParseJS(h, aSourceCodes))

VisitStepUncached(h, id, tagsBefore, originsBefore, aSourceCodes, aFile, aLineOffset, aColumnOffset) ==
    LET sources == Split(aSourceCodes)
        tagType == TagTypeOf(h, id)
        loop(t) ==
            [heap |-> h,
             tags |-> Push(tagsBefore,
                        [k \in 1..Len(t.infos) |->
                            ShiftTag(t.infos[k], aFile, sources,
                                     aLineOffset, aColumnOffset)]),
             origins |-> Push(originsBefore,
                           [k \in 1..Len(t.infos) |->
                               [node |-> id, k |-> k - t.nOwn]]),
             stderr |-> IF IsUnknown(tagType)
                        THEN <<UnknownMessage(h, id, aFile, sources)>>
                        ELSE << >>,
             threw |-> t.threw]
    IN  Apply(loop, Tags(h, id))

\* One iteration of the loop of tagAST over the identifiers.
VisitStep(h, id, tagsBefore, originsBefore, aSourceCodes, aFile, aLineOffset, aColumnOffset) ==
    LET sources == Split(aSourceCodes)
        tagType == TagTypeOf(h, id)
        h1 == [h EXCEPT ![id].tagType = tagType]
        loop(t) ==
            [heap |-> h1,
             tags |-> Push(tagsBefore,
                        [k \in 1..Len(t.infos) |->
                            ShiftTag(t.infos[k], aFile, sources,
                                     aLineOffset, aColumnOffset)]),
             origins |-> Push(originsBefore,
                           [k \in 1..Len(t.infos) |->
                               [node |-> id, k |-> k - t.nOwn]]),
             stderr |-> IF IsUnknown(tagType)
                        THEN <<UnknownMessage(h1, id, aFile, sources)>>
                        ELSE << >>,
             threw |-> t.threw]
    IN  Apply(loop, Tags(h1, id))

(***************************************************************************)
(* The calls and the files                                                 *)
(***************************************************************************)
TagCall(src, path, lineOffset, columnOffset) ==
    [kind |-> "tag", src |-> src, path |-> path,
     lineOffset |-> lineOffset, columnOffset |-> columnOffset]
TagFileCall(path) ==
    [kind |-> "tagFile", src |-> EmptyStr, path |-> path,
     lineOffset |-> 0, columnOffset |-> 0]

Sources ==
    { SrcRequireFoo, SrcRequireFs, SrcRequireName, SrcQuery, SrcWith,
      SrcFunc, SrcNoArg, SrcEscaped, SrcBad, SrcModuleOnly, EmptyStr }

FilePaths == {"foo.js", "query.js", "with.js", "run.js", "bad.js", "gone.js"}

\* The bytes of the files; "gone.js" does not exist.
FileExists(path) == path # "gone.js"
FileContent(path) ==
    CASE path = "foo.js" -> SrcRequireFoo
      [] path = "query.js" -> SrcQuery
      [] path = "with.js" -> SrcWith
      [] path = "run.js" -> SrcShebang
      [] OTHER -> SrcBad

\* A single call of tagJavaScript with any arguments, or a run of two to
\* NFiles calls of which no two need differ.
TagCalls ==
    { TagCall(s, p, lo, co) :
        s \in Sources, p \in {"", "foo.js"},
        lo \in 0..MaxOffset, co \in 0..MaxOffset }
BatchCalls ==
    { TagFileCall(p) : p \in FilePaths }
    \cup { TagCall(SrcFunc, "func.js", MaxOffset, MaxOffset) }
CallSeqs ==
    [1..1 -> TagCalls] \cup UNION { [1..n -> BatchCalls] : n \in 2..NFiles }

(***************************************************************************)
(* The state                                                               *)
(***************************************************************************)
VARIABLES
    calls,      \* the calls made, each with its arguments
    heap,       \* the objects the parser and decorateAST have built
    pc,         \* where each call is
    running,    \* the call that is executing, 0 when none is
    ast,        \* ast of tagJavaScript: the root of the call's tree
    idents,     \* the identifiers aAST.descendants('Identifier') yields
    idx,        \* the next identifier of the loop of tagAST
    tags,       \* tags of tagAST
    origins,    \* for each tag, the identifier whose tags getter yielded
                \* it and its rank among those (0: the identifier itself)
    stderr,     \* what each call wrote with console.error
    error,      \* the exception a call ended with
    parses,     \* how many times each call has called esprima.parse
    exit        \* the exit code of the process

\* The HTML tagger, a process of its own: the variables of its module
\* (js-parser.js 465-469) and what it has done.
VARIABLES
    doc,            \* the HTML file: its lines and, for each line, the calls
                    \* of the handlers parser.write makes for it
    hpc,            \* where the HTML tagger is
    curFile,        \* curFile
    curLine,        \* curLine
    htmlSources,    \* sources
    inScript,       \* inScript
    lineBeginScript,\* lineBeginScript
    javaScript,     \* javaScript
    nextEvent,      \* the next handler call of the line being written
    stdout,         \* the lines printTag has written
    blocks          \* for each script element closed, the call of
                    \* tagJavaScript made for it and how it ended

\* A function of the repository applied on its own to one input.
VARIABLES
    probe

jsVars == <<calls, heap, pc, running, ast, idents, idx, tags, origins,
            stderr, error, parses, exit>>
htmlVars == <<doc, hpc, curFile, curLine, htmlSources, inScript,
              lineBeginScript, javaScript, nextEvent, stdout, blocks>>

vars == <<jsVars, htmlVars, probe>>

Calls == DOMAIN calls

\* No call of tagJavaScript or tagJavaScriptFile has been made.
JsStart ==
    /\ heap = << >>
    /\ pc = [f \in Calls |-> "pending"]
    /\ running = 0
    /\ ast = [f \in Calls |-> NoRef]
    /\ idents = [f \in Calls |-> << >>]
    /\ idx = [f \in Calls |-> 1]
    /\ tags = [f \in Calls |-> << >>]
    /\ origins = [f \in Calls |-> << >>]
    /\ stderr = [f \in Calls |-> << >>]
    /\ error = [f \in Calls |-> ""]
    /\ parses = [f \in Calls |-> 0]
    /\ exit = NotExited

\* The module of the HTML tagger as it is loaded (js-parser.js 465-469),
\* no file read yet.
NoDoc == [lines |-> << >>, events |-> << >>]
HtmlStart ==
    /\ hpc = "reading"
    /\ curFile = ""
    /\ curLine = 0
    /\ htmlSources = << >>
    /\ inScript = FALSE
    /\ lineBeginScript = 0
    /\ javaScript = << >>
    /\ nextEvent = 1
    /\ stdout = << >>
    /\ blocks = << >>

NoProbe == [fn |-> "none"]

\* The command line of the JavaScript tagger, or a caller of tagJavaScript.
Init ==
    /\ calls \in CallSeqs
    /\ JsStart
    /\ doc = NoDoc
    /\ HtmlStart
    /\ probe = NoProbe

\* tagJavaScript is entered with aSourceCodes; it runs to the loop of
\* tagAST, to the exception it throws or to process.exit(10).
EnterTagJavaScript(f, aSourceCodes) ==
    \E e \in {Enter(heap, aSourceCodes, calls[f].path,
                     calls[f].lineOffset)} :
        /\ heap' = e.heap
        /\ pc' = [pc EXCEPT ![f] = e.pc]
        /\ running' = IF e.pc = "walking" THEN f ELSE 0
        /\ ast' = [ast EXCEPT ![f] = e.ast]
        /\ idents' = [idents EXCEPT ![f] = e.idents]
        /\ stderr' = [stderr EXCEPT ![f] = e.stderr]
        /\ error' = [error EXCEPT ![f] = e.error]
        /\ parses' = [parses EXCEPT ![f] = e.parses]
        /\ exit' = IF e.exit THEN ExitSyntaxError ELSE exit
        /\ UNCHANGED <<calls, idx, tags, origins, htmlVars, probe>>

\* A caller calls tagJavaScript.
Call(f) ==
    /\ exit = NotExited /\ running = 0
    /\ pc[f] = "pending"
    /\ calls[f].kind = "tag"
    /\ EnterTagJavaScript(f, calls[f].src)

\* tagJavaScriptFile: the read of the file has ended and the promise's
\* handlers run: tagJavaScript on the text without its shebang.
ReadDone(f) ==
    /\ exit = NotExited /\ running = 0
    /\ pc[f] = "pending"
    /\ calls[f].kind = "tagFile"
    /\ FileExists(calls[f].path)
    /\ EnterTagJavaScript(f, StripShebang(FileContent(calls[f].path)))

\* tagJavaScriptFile: the read failed; exitWithError ends the process
\* with the error's errno.
ReadFailed(f) ==
    /\ exit = NotExited /\ running = 0
    /\ pc[f] = "pending"
    /\ calls[f].kind = "tagFile"
    /\ ~FileExists(calls[f].path)
    /\ pc' = [pc EXCEPT ![f] = "exited"]
    /\ stderr' = [stderr EXCEPT ![f] = <<[kind |-> "Error",
                                          path |-> calls[f].path]>>]
    /\ exit' = ExitErrno
    /\ UNCHANGED <<calls, heap, running, ast, idents, idx, tags, origins,
                   error, parses, htmlVars, probe>>

\* The text tagJavaScript was given.
SourceOf(f) ==
    IF calls[f].kind = "tag" THEN calls[f].src
    ELSE StripShebang(FileContent(calls[f].path))

\* The loop of tagAST handles the next identifier: its message when the
\* type is unknown, its tags, or the exception of its tags getter.
Visit(f) ==
    /\ exit = NotExited /\ running = f
    /\ pc[f] = "walking"
    /\ idx[f] <= Len(idents[f])
    /\ \E v \in {VisitStep(heap, idents[f][idx[f]], tags[f], origins[f],
                           SourceOf(f), calls[f].path,
                           calls[f].lineOffset, calls[f].columnOffset)} :
           /\ heap' = v.heap
           /\ tags' = [tags EXCEPT ![f] = v.tags]
           /\ origins' = [origins EXCEPT ![f] = v.origins]
           /\ stderr' = [stderr EXCEPT ![f] = @ \o v.stderr]
           /\ pc' = [pc EXCEPT ![f] = IF v.threw THEN "threw" ELSE @]
           /\ error' = [error EXCEPT ![f] =
                          IF v.threw THEN ScanError ELSE @]
           /\ running' = IF v.threw THEN 0 ELSE f
           /\ idx' = [idx EXCEPT ![f] = IF v.threw THEN @ ELSE @ + 1]
    /\ UNCHANGED <<calls, ast, idents, parses, exit, htmlVars, probe>>

\* The loop has ended: tagAST and tagJavaScript return tags.
Return(f) ==
    /\ exit = NotExited /\ running = f
    /\ pc[f] = "walking"
    /\ idx[f] > Len(idents[f])
    /\ pc' = [pc EXCEPT ![f] = "returned"]
    /\ running' = 0
    /\ UNCHANGED <<calls, heap, ast, idents, idx, tags, origins, stderr,
                   error, parses, exit, htmlVars, probe>>

Next ==
    \/ \E f \in Calls : Call(f)
    \/ \E f \in Calls : ReadDone(f)
    \/ \E f \in Calls : ReadFailed(f)
    \/ \E f \in Calls : Visit(f)
    \/ \E f \in Calls : Return(f)

Spec == Init /\ [][Next]_vars

(***************************************************************************)
(* What the properties below speak of                                      *)
(***************************************************************************)
\* tagJavaScript has been entered by call f.
Entered(f) ==
    /\ pc[f] # "pending"
    /\ calls[f].kind = "tagFile" => FileExists(calls[f].path)

\* The identifiers the loop of tagAST has handled without an exception.
Visited(f) == SubSeq(idents[f], 1, idx[f] - 1)

\* The positions in tags[f] of the tags identifier n yielded.
TagsFrom(f, n) == {i \in 1..Len(tags[f]) : origins[f][i].node = n}
OwnTagsFrom(f, n) == {i \in TagsFrom(f, n) : origins[f][i].k = 0}

\* The tags of call f that carry the name `name'.
TagsNamed(f, name) == {i \in 1..Len(tags[f]) : tags[f][i].name = name}

(***************************************************************************)
(* C1: every tag of the stream has kind D or R.  An identifier classified  *)
(* Ignore (N) or Unknown yields no tag for itself; one classified D or R   *)
(* yields exactly one tag for itself, of that kind, and whatever else it   *)
(* yields is a Reference tag found in a literal.                           *)
(***************************************************************************)
C1_TagKinds ==
    \A f \in Calls :
        /\ \A i \in 1..Len(tags[f]) : tags[f][i].type \in {TagDEF, TagREF}
        /\ \A j \in 1..Len(Visited(f)) :
              LET n == idents[f][j]
                  verdict == DetermineTagType(heap, n)
              IN  /\ verdict \in {TagNOTHING, TagUndefined}
                        => OwnTagsFrom(f, n) = {}
                  /\ verdict \in {TagDEF, TagREF}
                        => /\ Cardinality(OwnTagsFrom(f, n)) = 1
                           /\ \A i \in OwnTagsFrom(f, n) :
                                 tags[f][i].type = verdict
                  /\ \A i \in TagsFrom(f, n) \ OwnTagsFrom(f, n) :
                        tags[f][i].type = TagREF

\* A call has returned after an ignored identifier, a definition and a
\* reference.
C1_Witness ==
    \E f \in Calls :
        /\ pc[f] = "returned"
        /\ \E j \in 1..Len(idents[f]) :
              DetermineTagType(heap, idents[f][j]) = TagNOTHING
        /\ \E i \in 1..Len(tags[f]) : tags[f][i].type = TagDEF
        /\ \E i \in 1..Len(tags[f]) : tags[f][i].type = TagREF

(***************************************************************************)
(* C2: for `const x = require(arg)' the stream has exactly one tag named   *)
(* x; it is a Reference when arg is a string literal whose module path     *)
(* names x, a Definition when the literal names another module or arg is   *)
(* not a literal.                                                          *)
(***************************************************************************)
OneTagNamed(f, name, type) ==
    /\ Cardinality(TagsNamed(f, name)) = 1
    /\ \A i \in TagsNamed(f, name) : tags[f][i].type = type

C2_RequireDeclaration ==
    \A f \in Calls :
        pc[f] = "returned" =>
            /\ SourceOf(f) = SrcRequireFoo => OneTagNamed(f, Str_foo, TagREF)
            /\ SourceOf(f) = SrcRequireFs
                  => OneTagNamed(f, Str_filesystem, TagDEF)
            /\ SourceOf(f) = SrcRequireName
                  => OneTagNamed(f, Str_foo, TagDEF)

(***************************************************************************)
(* C3: when the source is invalid under both grammars the call hands its   *)
(* caller a failure (path, line, description) and only that file is lost:  *)
(* the process goes on with the other files.                               *)
(***************************************************************************)
InvalidUnderBoth(src) ==
    /\ ~ParseResult(src, "script").ok
    /\ ~ParseResult(src, "module").ok

C3_ParseFailureIsLocal ==
    \A f \in Calls :
        Entered(f) /\ Precondition(SourceOf(f), calls[f].path)
                   /\ InvalidUnderBoth(SourceOf(f))
            => /\ pc[f] = "threw"
               /\ error[f] # ""
               /\ exit # ExitSyntaxError

(***************************************************************************)
(* C4: when the source fails under the default grammar and the retry as a  *)
(* module gives a tree, tagJavaScript does not fail: the tree is decorated *)
(* and walked like a tree of the default grammar and its tags are          *)
(* returned.                                                               *)
(***************************************************************************)
OnlyAsModule(src) ==
    /\ ~ParseResult(src, "script").ok
    /\ ParseResult(src, "module").ok

C5_Precondition ==
    \A f \in Calls :
        Entered(f) =>
            /\ SourceOf(f) = EmptyStr \/ calls[f].path = ""
                  => /\ pc[f] = "threw"
                     /\ error[f] = PreconditionError
                     /\ parses[f] = 0
                     /\ ast[f] = NoRef
                     /\ tags[f] = << >>
            /\ SourceOf(f) # EmptyStr /\ calls[f].path # ""
                  => error[f] # PreconditionError

\* A call with an empty source and a path has thrown.
C5_Witness ==
    \E f \in Calls :
        /\ pc[f] = "threw"
        /\ SourceOf(f) = EmptyStr
        /\ calls[f].path # ""

(***************************************************************************)
(* C6: every tag, the identifier's own or one found in a literal, has      *)
(* line = its line in the fragment + lineOffset and column = its 0-based   *)
(* column in the fragment + 1 + columnOffset, the shift being applied once.*)
(* The location in the fragment is loc.start of the identifier, and for a  *)
(* tag found in a literal the location tagInfoFromLiteral computed.        *)
(***************************************************************************)
FragmentLocation(f, i) ==
    LET o == origins[f][i]
    IN  IF o.k = 0
        THEN [line |-> heap[o.node].line, column |-> heap[o.node].column]
        ELSE LET info == LiteralTags(heap, o.node).infos[o.k]
             IN  [line |-> info.line, column |-> info.column]

C6_OffsetsAppliedOnce ==
    \A f \in Calls :
        \A i \in 1..Len(tags[f]) :
            /\ tags[f][i].line
                 = FragmentLocation(f, i).line + calls[f].lineOffset
            /\ tags[f][i].column
                 = FragmentLocation(f, i).column + 1 + calls[f].columnOffset

\* A call with both offsets above 0 has returned a tag found in a literal
\* after the tag of the identifier itself.
C6_Witness ==
    \E f \in Calls :
        /\ pc[f] = "returned"
        /\ calls[f].lineOffset > 0 /\ calls[f].columnOffset > 0
        /\ \E i \in 1..Len(tags[f]) : origins[f][i].k = 0
        /\ \E i \in 1..Len(tags[f]) : origins[f][i].k > 0

(***************************************************************************)
(* C7: the stream is in the pre-order, left-to-right order of the tree:    *)
(* the identifiers are visited in that order, every tag of an identifier   *)
(* visited earlier precedes every tag of one visited later, and the tags   *)
(* an identifier found in a literal follow its own tag at once, in the     *)
(* order of their matches.                                                 *)
(***************************************************************************)
\* The place of object n in its tree: from the root down, the rank of each
\* step among the properties of the object above.
RECURSIVE Position(_, _)
Position(h, n) ==
    IF h[n].parentNode = NoRef THEN << >>
    ELSE LET p == h[n].parentNode
             k == CHOOSE k \in 1..Len(h[p].props) : h[p].props[k].ref = n
         IN  Append(Position(h, p), k)

\* p comes before q in pre-order, left to right: p is above q, or p
\* branches off to the left of q.
PreOrderBefore(p, q) ==
    \E i \in 1..Len(q) :
        /\ \A j \in 1..(i - 1) : j <= Len(p) /\ p[j] = q[j]
        /\ \/ i = Len(p) + 1
           \/ i <= Len(p) /\ p[i] < q[i]

C7_PreOrder ==
    \A f \in Calls :
        /\ \A a, b \in 1..Len(idents[f]) :
              a < b => PreOrderBefore(Position(heap, idents[f][a]),
                                      Position(heap, idents[f][b]))
        /\ \A i, j \in 1..Len(tags[f]) :
              i < j =>
                LET a == origins[f][i]
                    b == origins[f][j]
                IN  IF a.node = b.node
                    THEN /\ b.k - a.k = j - i
                         /\ b.k > 0
                         /\ tags[f][j].name
                              = LiteralTags(heap, b.node).infos[b.k].name
                    ELSE PreOrderBefore(Position(heap, a.node),
                                        Position(heap, b.node))

\* A call has returned the tags of document.querySelector("#login-button")
\* .focus(): those of three identifiers, one of which found a tag in the
\* literal.
C7_Witness ==
    \E f \in Calls :
        /\ pc[f] = "returned"
        /\ SourceOf(f) = SrcQuery
        /\ Cardinality({origins[f][i].node : i \in 1..Len(tags[f])}) = 3
        /\ \E i \in 1..Len(tags[f]) : origins[f][i].k > 0

(***************************************************************************)
(* C8: for document.querySelector("#login-button").focus(); the stream has *)
(* a Reference tag for querySelector where the identifier is, and right    *)
(* after it a Reference tag named login-button whose column is that of     *)
(* the `l' in the literal: the literal's column + 1 for the quotation mark *)
(* + 1 for the `#'.                                                        *)
(***************************************************************************)
C8_SelectorLiteral ==
    \A f \in Calls :
        pc[f] = "returned" /\ SourceOf(f) = SrcQuery =>
            \E i \in 1..(Len(tags[f]) - 1) :
                LET t == tags[f][i]
                    u == tags[f][i + 1]
                    literal == IndexOf(SrcQuery, Str_hashLoginButton) - 1
                IN  /\ t.type = TagREF
                    /\ t.name = Str_querySelector
                    /\ t.line = 1 + calls[f].lineOffset
                    /\ t.column = IndexOf(SrcQuery, Str_querySelector) + 1
                                    + calls[f].columnOffset
                    /\ u.type = TagREF
                    /\ u.name = Str_loginButton
                    /\ u.line = 1 + calls[f].lineOffset
                    /\ u.column = IndexOf(SrcQuery, Str_loginButton) + 1
                                    + calls[f].columnOffset
                    /\ u.column = (literal + 1 + 1) + 1
                                    + calls[f].columnOffset
                    /\ Cardinality(TagsNamed(f, Str_loginButton)) = 1
                    /\ TagsNamed(f, Str_hashLoginButton) = {}

\* The call on that statement has returned, the literal three characters
\* before the `l' that is not at the start of the text.
C8_Witness ==
    \E f \in Calls :
        /\ pc[f] = "returned"
        /\ SourceOf(f) = SrcQuery
        /\ Len(tags[f]) = 4
        /\ IndexOf(SrcQuery, Str_loginButton) > 2

(***************************************************************************)
(* C9: an identifier of unknown type gets one message on stderr, with its  *)
(* path in the tree and its location, and no tag; the loop goes on, and    *)
(* the tags of the stream are those of the other identifiers, each as it   *)
(* is classified without regard to the unknown one.                        *)
(***************************************************************************)
Unknown(n) == DetermineTagType(heap, n) = TagUndefined

\* The tags identifier n gives on its own account, shifted.
Contribution(f, n) ==
    LET verdict == DetermineTagType(heap, n)
        own == IF verdict \in {TagDEF, TagREF}
               THEN <<[type |-> verdict, name |-> heap[n].name,
                       line |-> heap[n].line, column |-> heap[n].column]>>
               ELSE << >>
        infos == own \o LiteralTags(heap, n).infos
    IN  [k \in 1..Len(infos) |->
            [type |-> infos[k].type, name |-> infos[k].name,
             path |-> calls[f].path,
             ref |-> At(Split(SourceOf(f)), infos[k].line - 1),
             line |-> infos[k].line + calls[f].lineOffset,
             column |-> infos[k].column + 1 + calls[f].columnOffset]]

RECURSIVE Contributions(_, _)
Contributions(f, ns) ==
    IF ns = << >> THEN << >>
    ELSE Contribution(f, Head(ns)) \o Contributions(f, Tail(ns))

Known(n) == ~Unknown(n)

UnknownMessages(f) ==
    LET ns == SelectSeq(Visited(f), Unknown)
    IN  [k \in 1..Len(ns) |->
            [kind |-> "Unknown Identifier", name |-> heap[ns[k]].name,
             path |-> calls[f].path,
             line |-> heap[ns[k]].line, column |-> heap[ns[k]].column + 1,
             ref |-> At(Split(SourceOf(f)), heap[ns[k]].line - 1),
             astPath |-> PathGetter(heap, ns[k])]]

C9_UnknownIdentifier ==
    \A f \in Calls :
        pc[f] \in {"walking", "returned"} =>
            /\ stderr[f] = UnknownMessages(f)
            /\ \A j \in 1..Len(Visited(f)) :
                  Unknown(idents[f][j]) => TagsFrom(f, idents[f][j]) = {}
            /\ tags[f] = Contributions(f, SelectSeq(Visited(f), Known))
            /\ pc[f] = "returned" => Len(Visited(f)) = Len(idents[f])

\* The call on   x; with (a) b;   has returned: a is of unknown type, its
\* message carries its path, and the tag of b, visited after a, is in the
\* stream after that of x.
C9_Witness ==
    \E f \in Calls :
        /\ pc[f] = "returned"
        /\ SourceOf(f) = SrcWith
        /\ Len(stderr[f]) = 1
        /\ stderr[f][1].name = <<"a">>
        /\ stderr[f][1].line = 2 /\ stderr[f][1].column = 7
        /\ stderr[f][1].astPath =
             << [array |-> FALSE, type |-> "Program", prop |-> "body"],
                [array |-> TRUE, type |-> "", prop |-> "1"],
                [array |-> FALSE, type |-> "WithStatement",
                 prop |-> "object"] >>
        /\ Len(tags[f]) = 2
        /\ tags[f][1].name = <<"x">> /\ tags[f][2].name = <<"b">>

(***************************************************************************)
(* C10: calls share no state.  Whatever calls came before it, a call ends  *)
(* as it ends when it is the only call of the process, with the same       *)
(* tags; the trees of two calls have no object in common, and a tagType    *)
(* is stored only on an identifier the call's own loop has reached.        *)
(***************************************************************************)
\* The loop of tagAST run to its end in one go.
RECURSIVE WalkAlone(_, _, _, _, _, _, _)
WalkAlone(h, ids, k, tagsBefore, originsBefore, aSourceCodes, c) ==
    IF k > Len(ids)
    THEN [pc |-> "returned", tags |-> tagsBefore, error |-> ""]
    ELSE LET step(v) ==
                 IF v.threw
                 THEN [pc |-> "threw", tags |-> v.tags, error |-> ScanError]
                 ELSE WalkAlone(v.heap, ids, k + 1, v.tags, v.origins,
                                aSourceCodes, c)
         IN  Apply(step, VisitStep(h, ids[k], tagsBefore, originsBefore,
                                   aSourceCodes, c.path, c.lineOffset,
                                   c.columnOffset))

\* Call c as the first and only call of a process.
RunAlone(c) ==
    LET aSourceCodes == IF c.kind = "tag" THEN c.src
                        ELSE StripShebang(FileContent(c.path))
        walk(e) ==
            IF e.pc # "walking"
            THEN [pc |-> e.pc, tags |-> << >>, error |-> e.error]
            ELSE WalkAlone(e.heap, e.idents, 1, << >>, << >>,
                           aSourceCodes, c)
    IN  IF c.kind = "tagFile" /\ ~FileExists(c.path)
        THEN [pc |-> "exited", tags |-> << >>, error |-> ""]
        ELSE Apply(walk, Enter(<< >>, aSourceCodes, c.path, c.lineOffset))

\* The objects of the tree under object n.
RECURSIVE Reach(_, _)
Reach(h, n) ==
    IF n = NoRef THEN {}
    ELSE {n} \cup UNION { Reach(h, h[n].props[k].ref) :
                            k \in 1..Len(h[n].props) }

C10_NoSharedState ==
    \A f \in Calls :
        /\ pc[f] \in {"returned", "threw", "exited"} =>
              LET alone == RunAlone(calls[f])
              IN  /\ pc[f] = alone.pc
                  /\ error[f] = alone.error
                  /\ tags[f] = alone.tags
        /\ \A g \in Calls \ {f} :
              Reach(heap, ast[f]) \cap Reach(heap, ast[g]) = {}
        /\ \A n \in Reach(heap, ast[f]) :
              /\ heap[n].tagType # Unset
                    => \E j \in 1..Len(idents[f]) :
                          j <= idx[f] /\ idents[f][j] = n
              /\ heap[n].parentNode # NoRef
                    => heap[n].parentNode \in Reach(heap, ast[f])

\* Two calls on different texts have both returned tags, the second of the
\* run before the first.
C10_Witness ==
    \E f, g \in Calls :
        /\ f < g
        /\ pc[f] = "returned" /\ pc[g] = "returned"
        /\ SourceOf(f) # SourceOf(g)
        /\ tags[f] # << >> /\ tags[g] # << >>
        /\ NoRef < ast[g] /\ ast[g] < ast[f]


(***************************************************************************)
(* Printing a tag: printSymbol of common.js and printTag of the newer      *)
(* common.js.  A printed line is the sequence of its characters, the path  *)
(* standing in it as one element.                                          *)
(***************************************************************************)
\* The decimal digits of a number, as the template literal prints it.
RECURSIVE Dec(_)
Dec(n) ==
    LET digit == <<"0", "1", "2", "3", "4", "5", "6", "7", "8", "9">>
    IN  IF n < 0 THEN <<"-">> \o Dec(0 - n)
        ELSE IF n < 10 THEN <<digit[n + 1]>>
        ELSE Dec(n \div 10) \o <<digit[(n % 10) + 1]>>

\* ${obj[key]} for a property that holds a number, undefined when the
\* object has no such property
NumberField(obj, key) ==
    IF key \in DOMAIN obj THEN Dec(obj[key]) ELSE Undefined

\* ${obj[key]} for a property that holds a string
StringField(obj, key) ==
    IF key \notin DOMAIN obj THEN Undefined
    ELSE IF key \in {"type", "path"} THEN <<obj[key]>>
    ELSE obj[key]

\* `${type},${name},${path},${line}:${column},${ref}`
PrintTag(tag) ==
    StringField(tag, "type") \o <<",">> \o StringField(tag, "name")
    \o <<",">> \o StringField(tag, "path") \o <<",">>
    \o NumberField(tag, "line") \o <<":">> \o NumberField(tag, "column")
    \o <<",">> \o StringField(tag, "ref")

\* `${type},${name},${path},${line}:${col},${ref}`
PrintSymbol(tag) ==
    StringField(tag, "type") \o <<",">> \o StringField(tag, "name")
    \o <<",">> \o StringField(tag, "path") \o <<",">>
    \o NumberField(tag, "line") \o <<":">> \o NumberField(tag, "col")
    \o <<",">> \o StringField(tag, "ref")

\* The tags tagJavaScript returns for the calls of TagCalls.
StreamTags ==
    UNION { {RunAlone(c).tags[i] : i \in 1..Len(RunAlone(c).tags)} :
              c \in {c \in TagCalls : c.path # ""} }

\* A tag of a stream is about to be printed.
PrintInit ==
    /\ calls = << >>
    /\ JsStart
    /\ doc = NoDoc
    /\ HtmlStart
    /\ probe \in { [fn |-> "print", tag |-> t, by |-> "", out |-> << >>] :
                     t \in StreamTags }

CallPrintTag ==
    /\ probe.fn = "print" /\ probe.by = ""
    /\ probe' = [probe EXCEPT !.by = "printTag", !.out = PrintTag(probe.tag)]
    /\ UNCHANGED <<jsVars, htmlVars>>

CallPrintSymbol ==
    /\ probe.fn = "print" /\ probe.by = ""
    /\ probe' = [probe EXCEPT !.by = "printSymbol",
                              !.out = PrintSymbol(probe.tag)]
    /\ UNCHANGED <<jsVars, htmlVars>>

PrintNext ==
    \/ CallPrintTag
    \/ CallPrintSymbol

PrintSpec == PrintInit /\ [][PrintNext]_vars

(***************************************************************************)
(* C12: a tag of the stream is printed as                                  *)
(* KIND,NAME,PATH,LINE:COLUMN,SOURCE_LINE_TEXT, every field the tag's own, *)
(* the COLUMN field the digits of its column, KIND D or R.                 *)
(***************************************************************************)
PlainTextForm(tag) ==
    <<tag.type>> \o <<",">> \o tag.name \o <<",">> \o <<tag.path>>
    \o <<",">> \o Dec(tag.line) \o <<":">> \o Dec(tag.column) \o <<",">>
    \o tag.ref

C12_PlainTextForm ==
    probe.fn = "print" /\ probe.by # "" =>
        /\ probe.out = PlainTextForm(probe.tag)
        /\ probe.tag.type \in {TagDEF, TagREF}

(***************************************************************************)
(* The HTML tagger (the second program of js-parser.js, from line 446):    *)
(* it writes the file to htmlparser2 line by line, prints a Definition for *)
(* every id, class and name attribute, gathers the text inside a script    *)
(* element and calls tagJavaScript on it when the element closes.          *)
(* The HTML parser is outside the repository: the handler calls it makes   *)
(* for a line are data of the document.                                    *)
(***************************************************************************)
\* A document has up to MaxLead lines before its script element.
MaxLead == 2

ScriptOpen == <<"<", "s", "c", "r", "i", "p", "t", ">">>
ScriptClose == <<"<", "/", "s", "c", "r", "i", "p", "t", ">">>
Str_main == <<"m", "a", "i", "n">>
\* <p id="main">
LeadLine ==
    <<"<", "p", " ", "i", "d", "=", "\"", "m", "a", "i", "n", "\"", ">">>

OpenTagName(aName) == [handler |-> "onopentagname", name |-> aName]
CloseTag(aName) == [handler |-> "onclosetag", name |-> aName]
Attribute(aName, aValue) ==
    [handler |-> "onattribute", name |-> aName, value |-> aValue]
Text(aText) == [handler |-> "ontext", text |-> aText]

\* The script texts of the documents.
ScriptSources == {SrcQuery, SrcWith, SrcFunc}

\* The document with `lead' lines  <p id="main">  and then the script
\* element, its text starting on the line of <script> (onSameLine) or on
\* the next one; textLine and textColumn say where the text starts.
Doc(lead, onSameLine, src) ==
    LET js == Split(src)
        n == Len(js)
        first(k) == IF k = 1 THEN ScriptOpen ELSE << >>
        last(k) == IF k = n THEN ScriptClose ELSE << >>
        scriptLines ==
            IF onSameLine
            THEN [k \in 1..n |-> first(k) \o js[k] \o last(k)]
            ELSE <<ScriptOpen>> \o js \o <<ScriptClose>>
        scriptEvents ==
            IF onSameLine
            THEN [k \in 1..n |->
                    (IF k = 1 THEN <<OpenTagName("script")>> ELSE << >>)
                    \o <<Text(js[k])>>
                    \o (IF k = n THEN <<CloseTag("script")>> ELSE << >>)]
            ELSE <<<<OpenTagName("script")>>>>
                 \o [k \in 1..n |-> <<Text(js[k])>>]
                 \o <<<<CloseTag("script")>>>>
    IN  [lines |-> [k \in 1..lead |-> LeadLine] \o scriptLines,
         events |-> [k \in 1..lead |->
                        <<OpenTagName("p"), Attribute("id", Str_main)>>]
                    \o scriptEvents,
         textLine |-> IF onSameLine THEN lead + 1 ELSE lead + 2,
         textColumn |-> IF onSameLine THEN Len(ScriptOpen) ELSE 0]

Docs ==
    { Doc(lead, onSameLine, src) :
        lead \in 0..MaxLead, onSameLine \in BOOLEAN, src \in ScriptSources }

\* javaScript.join('\n')
RECURSIVE Join(_)
Join(strs) ==
    IF strs = << >> THEN EmptyStr
    ELSE IF Len(strs) = 1 THEN strs[1]
    ELSE strs[1] \o <<"\n">> \o Join(Tail(strs))

\* src.trim().length
TrimmedIsEmpty(s) == \A i \in 1..Len(s) : s[i] \in {" ", "\t", "\n", "\r"}

\* The command line of the HTML tagger names one file.
HtmlInit ==
    /\ calls = << >>
    /\ JsStart
    /\ doc \in Docs
    /\ HtmlStart
    /\ probe = NoProbe

\* The handler call parser.write makes next.
Event == doc.events[curLine][nextEvent]
Handling(handler) ==
    /\ hpc = "writing"
    /\ nextEvent <= Len(doc.events[curLine])
    /\ Event.handler = handler

\* readFile(file).then(aContent => ...): the first iteration of the loop
\* over the lines.
HtmlRead ==
    /\ hpc = "reading"
    /\ hpc' = "writing"
    /\ curFile' = "index.html"
    /\ htmlSources' = doc.lines
    /\ curLine' = 1
    /\ nextEvent' = 1
    /\ UNCHANGED <<jsVars, doc, inScript, lineBeginScript, javaScript,
                   stdout, blocks, probe>>

OnAttribute ==
    /\ Handling("onattribute")
    /\ stdout' =
         IF Event.name \in {"id", "class", "name"}
         THEN Append(stdout,
                     PrintTag([type |-> TagDEF, name |-> Event.value,
                               path |-> curFile, line |-> curLine,
                               column |-> 0 + 1,
                               ref |-> htmlSources[curLine]]))
         ELSE stdout
    /\ nextEvent' = nextEvent + 1
    /\ UNCHANGED <<jsVars, doc, hpc, curFile, curLine, htmlSources, inScript,
                   lineBeginScript, javaScript, blocks, probe>>

OnOpenTagName ==
    /\ Handling("onopentagname")
    /\ inScript' = IF Event.name = "script" THEN TRUE ELSE inScript
    /\ lineBeginScript' =
         IF Event.name = "script" THEN curLine ELSE lineBeginScript
    /\ nextEvent' = nextEvent + 1
    /\ UNCHANGED <<jsVars, doc, hpc, curFile, curLine, htmlSources,
                   javaScript, stdout, blocks, probe>>

\* javaScript.pop(), formatted into a string
Popped(arr) == IF arr = << >> THEN Undefined ELSE arr[Len(arr)]

OnText ==
    /\ Handling("ontext")
    /\ javaScript' =
         IF ~inScript THEN javaScript
         ELSE IF StartsWith(Event.text, <<"<">>)
         THEN Append(SubSeq(javaScript, 1, Len(javaScript) - 1),
                     Popped(javaScript) \o Event.text)
         ELSE Append(javaScript, Event.text)
    /\ nextEvent' = nextEvent + 1
    /\ UNCHANGED <<jsVars, doc, hpc, curFile, curLine, htmlSources, inScript,
                   lineBeginScript, stdout, blocks, probe>>

\* onclosetag.  tagJavaScript runs to its end inside the handler; what it
\* returns is dropped by the handler and kept here in blocks.
OnCloseTag ==
    /\ Handling("onclosetag")
    /\ IF Event.name # "script"
       THEN UNCHANGED <<hpc, inScript, javaScript, blocks>>
       ELSE LET src == Join(javaScript)
                column == IndexOf(htmlSources[lineBeginScript],
                                  At(javaScript, 0)) + 1
                call == TagCall(src, curFile, lineBeginScript, column)
            IN  /\ inScript' = FALSE
                /\ IF TrimmedIsEmpty(src)
                   THEN /\ javaScript' = << >>
                        /\ UNCHANGED <<hpc, blocks>>
                   ELSE \E r \in {RunAlone(call)} :
                           /\ blocks' = Append(blocks,
                                               [call |-> call, pc |-> r.pc,
                                                tags |-> r.tags])
                           /\ hpc' = IF r.pc = "returned" THEN hpc
                                     ELSE r.pc
                           /\ javaScript' = IF r.pc = "returned" THEN << >>
                                            ELSE javaScript
    /\ nextEvent' = nextEvent + 1
    /\ UNCHANGED <<jsVars, doc, curFile, curLine, htmlSources,
                   lineBeginScript, stdout, probe>>

\* The loop over the lines goes on to the next line.
WriteNextLine ==
    /\ hpc = "writing"
    /\ nextEvent > Len(doc.events[curLine])
    /\ curLine < Len(htmlSources)
    /\ curLine' = curLine + 1
    /\ nextEvent' = 1
    /\ UNCHANGED <<jsVars, doc, hpc, curFile, htmlSources, inScript,
                   lineBeginScript, javaScript, stdout, blocks, probe>>

\* .then(() => {parser.end();})
ParserEnd ==
    /\ hpc = "writing"
    /\ nextEvent > Len(doc.events[curLine])
    /\ curLine = Len(htmlSources)
    /\ hpc' = "ended"
    /\ UNCHANGED <<jsVars, doc, curFile, curLine, htmlSources, inScript,
                   lineBeginScript, javaScript, nextEvent, stdout, blocks,
                   probe>>

HtmlNext ==
    \/ HtmlRead
    \/ OnAttribute
    \/ OnOpenTagName
    \/ OnText
    \/ OnCloseTag
    \/ WriteNextLine
    \/ ParserEnd

HtmlSpec == HtmlInit /\ [][HtmlNext]_vars

(***************************************************************************)
(* C11: for a script element of an HTML document, every tag tagJavaScript  *)
(* returns for its text carries the line and the column the identifier     *)
(* has in the document, whether the text starts on the line of <script>    *)
(* or on a later line, and on whichever line of the text the identifier    *)
(* is.                                                                     *)
(***************************************************************************)
\* The tags of the script text taken as a file of its own: line and column
\* count from 1 within the text.
TagsInFragment(b) ==
    RunAlone(TagCall(b.call.src, b.call.path, 0, 0)).tags

\* The characters of the document at a line and a 1-based column.
DocTextAt(line, column, n) ==
    IF line \in 1..Len(doc.lines)
    THEN Slice(doc.lines[line], column - 1, column - 1 + n)
    ELSE Undefined

C11_HtmlAbsolutePosition ==
    \A k \in 1..Len(blocks) :
        \A i \in 1..Len(blocks[k].tags) :
            LET t == blocks[k].tags[i]
                inText == TagsInFragment(blocks[k])[i]
            IN  /\ t.line = doc.textLine + inText.line - 1
                /\ t.column = inText.column
                                + (IF inText.line = 1 THEN doc.textColumn
                                   ELSE 0)
                /\ DocTextAt(t.line, t.column, Len(t.name)) = t.name

(***************************************************************************)
(* determineTagType on its own: an identifier attached to a node of any    *)
(* type under any property, directly or as the element of an array.        *)
(***************************************************************************)
\* The keys the switch of determineTagType names.
SwitchKeys ==
    Definitions \cup References \cup Ignored \cup LoopOperands
    \cup { <<"ExportSpecifier", "exported">>, <<"MethodDefinition", "key">>,
           <<"ImportSpecifier", "local">>, <<"Property", "key">>,
           <<"VariableDeclarator", "id">>, <<"ForStatement", "update">> }

\* Node types and property names: those of the switch and some it does
\* not name.
NodeTypes ==
    {k[1] : k \in SwitchKeys}
    \cup {"Program", "WithStatement", "AwaitExpression", "ClassBody",
          "BlockStatement", "ForOfStatement", "ArrayPattern"}
PropNames ==
    {k[2] : k \in SwitchKeys}
    \cup {"object", "body", "0", "1", "consequent", "properties"}

\* The keys whose case reads a sibling of the identifier; they are given
\* their siblings in the trees of the import and export statements.
SiblingKeys ==
    { <<"ExportSpecifier", "exported">>, <<"ImportSpecifier", "local">> }
ProbeKeys == (NodeTypes \X PropNames) \ SiblingKeys

\* A node of the key's type holding the identifier x under the key's
\* property, decorated.
ProbeHeap(key, viaArray) ==
    LET tree ==
          IF viaArray
          THEN << Node(key[1], 1, 0, <<Prop(key[2], 2)>>),
                  Arr(<<3>>),
                  Ident(<<"x">>, 1, 0) >>
          ELSE << Node(key[1], 1, 0, <<Prop(key[2], 2)>>),
                  Ident(<<"x">>, 1, 0) >>
    IN  DecorateAST(tree, 1)
ProbeIdent(viaArray) == IF viaArray THEN 3 ELSE 2

\* The places of a tree that hold an identifier: the object that has the
\* property (a node, or an array for an element) and the property.
IdentifierPlaces(tree) ==
    UNION { { [node |-> o, prop |-> tree[o].props[k].key] :
                k \in { j \in 1..Len(tree[o].props) :
                          tree[tree[o].props[j].ref].type = "Identifier" } } :
            o \in 1..Len(tree) }

\* The trees whose identifiers are classified one by one.
ClassifiedTrees ==
    { TreeFor, TreeForUses, TreeForPlain, TreeForPattern, TreeForIn,
      TreeForInit, TreeProps, TreeAssignProps, TreeExport, TreeImport,
      TreeClass, TreeSharedCall }

\* The types getAncestor is asked for.
AncestorTypes ==
    { "ForStatement", "ForInStatement", "VariableDeclarator", "Property",
      "BlockStatement", "Program", "WithStatement" }

ClassifyInit ==
    /\ calls = << >>
    /\ JsStart
    /\ doc = NoDoc
    /\ HtmlStart
    /\ probe \in
         { [fn |-> "determineTagType", key |-> key,
            viaArray |-> viaArray, done |-> FALSE, out |-> ""] :
              key \in ProbeKeys, viaArray \in BOOLEAN }
         \cup UNION { { [fn |-> "tagType", tree |-> tree, at |-> place,
                         done |-> FALSE, out |-> ""] :
                           place \in IdentifierPlaces(tree) } :
                       tree \in ClassifiedTrees }
         \cup UNION { { [fn |-> "getAncestor", tree |-> tree, at |-> place,
                         type |-> type, done |-> FALSE,
                         out |-> [node |-> NoRef, prop |-> ""]] :
                           place \in IdentifierPlaces(tree),
                           type \in AncestorTypes } :
                       tree \in ClassifiedTrees }

\* identifier.tagType is read.
Classify ==
    /\ probe.fn = "determineTagType" /\ ~probe.done
    /\ probe' = [probe EXCEPT
                   !.done = TRUE,
                   !.out = DetermineTagType(
                               ProbeHeap(probe.key, probe.viaArray),
                               ProbeIdent(probe.viaArray))]
    /\ UNCHANGED <<jsVars, htmlVars>>

\* decorateAST(ast), then the tagType of the identifier found at a place
\* of the tree is read.
ClassifyInTree ==
    /\ probe.fn = "tagType" /\ ~probe.done
    /\ \E h \in {DecorateAST(probe.tree, 1)} :
          probe' = [probe EXCEPT
                      !.done = TRUE,
                      !.out = TagTypeOf(h, Get(h, probe.at.node,
                                              probe.at.prop))]
    /\ UNCHANGED <<jsVars, htmlVars>>

\* decorateAST(ast), then identifier.getAncestor(aType) is called.
GetAncestor ==
    /\ probe.fn = "getAncestor" /\ ~probe.done
    /\ \E h \in {DecorateAST(probe.tree, 1)} :
          probe' = [probe EXCEPT
                      !.done = TRUE,
                      !.out = AstGetAncestorNode(
                                  h, Get(h, probe.at.node, probe.at.prop),
                                  probe.type)]
    /\ UNCHANGED <<jsVars, htmlVars>>

ClassifyNext ==
    \/ Classify
    \/ ClassifyInTree
    \/ GetAncestor

ClassifySpec == ClassifyInit /\ [][ClassifyNext]_vars

(***************************************************************************)
(* C13: determineTagType agrees with the rule table of the specification   *)
(* on every key (type of the nearest parent that is not an array,          *)
(* property).  For an element of an array the key is the node that owns    *)
(* the array and the property that holds it; a key listed without          *)
(* condition under Definition, Reference or Ignore gets that verdict; a    *)
(* key outside the table gets Unknown.                                     *)
(***************************************************************************)
\* The rule table of section 4.2 of the specification.
SpecDefinition ==
    { <<"ClassDeclaration", "id">>,
      <<"ConditionalExpression", "consequent">>,
      <<"ExportDefaultDeclaration", "declaration">>,
      <<"FunctionDeclaration", "id">>, <<"FunctionExpression", "id">>,
      <<"ImportNamespaceSpecifier", "local">>,
      <<"LabeledStatement", "label">>, <<"ArrayPattern", "elements">> }
SpecConditional ==
    { <<"ExportSpecifier", "exported">>, <<"MethodDefinition", "key">>,
      <<"ImportSpecifier", "local">>, <<"Property", "key">>,
      <<"VariableDeclarator", "id">> }
SpecLoopScope ==
    { <<"BinaryExpression", "left">>, <<"BinaryExpression", "right">>,
      <<"UpdateExpression", "argument">>, <<"UnaryExpression", "argument">>,
      <<"ForStatement", "update">> }
SpecReference ==
    { <<"ArrayExpression", "elements">>,
      <<"ArrowFunctionExpression", "body">>,
      <<"AssignmentExpression", "right">>,
      <<"BreakStatement", "label">>, <<"ContinueStatement", "label">>,
      <<"CallExpression", "arguments">>, <<"CallExpression", "callee">>,
      <<"ClassDeclaration", "superClass">>,
      <<"ConditionalExpression", "alternate">>,
      <<"ConditionalExpression", "test">>,
      <<"DoWhileStatement", "test">>, <<"WhileStatement", "test">>,
      <<"ForStatement", "test">>,
      <<"ForInStatement", "right">>, <<"ForOfStatement", "right">>,
      <<"IfStatement", "test">>,
      <<"ImportDefaultSpecifier", "local">>,
      <<"ImportSpecifier", "imported">>,
      <<"LogicalExpression", "left">>, <<"LogicalExpression", "right">>,
      <<"MemberExpression", "object">>, <<"MemberExpression", "property">>,
      <<"NewExpression", "arguments">>, <<"NewExpression", "callee">>,
      <<"Property", "value">>,
      <<"ReturnStatement", "argument">>,
      <<"SequenceExpression", "expressions">>,
      <<"SpreadElement", "argument">>,
      <<"SwitchCase", "test">>, <<"SwitchStatement", "discriminant">>,
      <<"TaggedTemplateExpression", "tag">>,
      <<"TemplateLiteral", "expressions">>,
      <<"ThrowStatement", "argument">>,
      <<"VariableDeclarator", "init">>,
      <<"YieldExpression", "argument">>,
      <<"ExpressionStatement", "expression">> }
SpecIgnore ==
    { <<"ArrowFunctionExpression", "params">>,
      <<"FunctionExpression", "params">>,
      <<"FunctionDeclaration", "params">>,
      <<"AssignmentExpression", "left">>, <<"AssignmentPattern", "left">>,
      <<"CatchClause", "param">>, <<"ClassExpression", "id">>,
      <<"ExportSpecifier", "local">>,
      <<"ForInStatement", "left">>, <<"ForOfStatement", "left">>,
      <<"RestElement", "argument">> }
SpecTable ==
    SpecDefinition \cup SpecConditional \cup SpecLoopScope
    \cup SpecReference \cup SpecIgnore

C13_RuleTable ==
    probe.fn = "determineTagType" /\ probe.done =>
        /\ probe.key \in SpecDefinition => probe.out = TagDEF
        /\ probe.key \in SpecReference => probe.out = TagREF
        /\ probe.key \in SpecIgnore => probe.out = TagNOTHING
        /\ probe.key \notin SpecTable => probe.out = TagUndefined
        /\ probe.key \in SpecTable => probe.out # TagUndefined
        /\ probe.out = DetermineTagType(ProbeHeap(probe.key, FALSE),
                                        ProbeIdent(FALSE))

\* An identifier that is element 0 of the expressions of a sequence
\* expression has been classified Reference.
C13_Witness ==
    /\ probe.fn = "determineTagType" /\ probe.done
    /\ probe.viaArray
    /\ probe.key = <<"SequenceExpression", "expressions">>
    /\ probe.out = TagREF

(***************************************************************************)
(* Where an identifier stands, read off the tree the parser returned: the  *)
(* place that holds an object, and the nodes that enclose a place, from    *)
(* the nearest outward, each with the property through which it encloses.  *)
(* Arrays are passed through: an element is enclosed by the node that owns *)
(* the array, through the property that holds the array.                   *)
(***************************************************************************)
Places(tree) ==
    UNION { { [node |-> o, prop |-> tree[o].props[k].key] :
                k \in 1..Len(tree[o].props) } : o \in 1..Len(tree) }
Holder(tree, ref) ==
    CHOOSE place \in Places(tree) : Get(tree, place.node, place.prop) = ref

RECURSIVE Enclosing(_, _)
Enclosing(tree, place) ==
    IF tree[place.node].cls = "array"
    THEN Enclosing(tree, Holder(tree, place.node))
    ELSE IF place.node = 1 THEN <<place>>
    ELSE <<place>> \o Enclosing(tree, Holder(tree, place.node))

\* The nearest enclosing node of a type, and the property through which it
\* encloses; node = NoRef when there is none.
NearestEnclosing(tree, place, type) ==
    LET chain == Enclosing(tree, place)
        hits == {k \in 1..Len(chain) : tree[chain[k].node].type = type}
    IN  IF hits = {} THEN [node |-> NoRef, prop |-> ""]
        ELSE chain[CHOOSE k \in hits : \A j \in hits : k <= j]

Held(tree, place) == tree[Get(tree, place.node, place.prop)]
KeyOf(tree, place) ==
    LET chain == Enclosing(tree, place)
    IN  <<tree[chain[1].node].type, chain[1].prop>>

(***************************************************************************)
(* C14: an identifier that is an operand of a binary, update or unary      *)
(* expression, or the update clause of a for statement itself, is Ignore   *)
(* if and only if it stands in the test or the update clause of the        *)
(* nearest for statement around it and the initializer of that statement   *)
(* declares a variable of its name; otherwise it is Reference.  For        *)
(* `for (let i = 0; i < 10; i++) { arr[i]; }' the stream has one tag       *)
(* named i, the Reference of the body.                                     *)
(***************************************************************************)
\* The names a declarator's id binds: the identifier, or the identifiers
\* of the elements of an array pattern.
RECURSIVE BoundNames(_, _)
BoundNames(tree, pattern) ==
    IF pattern = NoRef THEN {}
    ELSE IF tree[pattern].type = "Identifier" THEN {tree[pattern].name}
    ELSE IF tree[pattern].type = "ArrayPattern"
    THEN LET elements == Elements(tree, Get(tree, pattern, "elements"))
         IN  UNION {BoundNames(tree, elements[k]) : k \in DOMAIN elements}
    ELSE {}

\* The initializer of the for statement declares a variable called name.
InitializerDeclares(tree, forStatement, name) ==
    LET init == Get(tree, forStatement, "init")
        declarations == Elements(tree, Get(tree, init, "declarations"))
    IN  /\ init # NoRef
        /\ tree[init].type = "VariableDeclaration"
        /\ \E k \in DOMAIN declarations :
              name \in BoundNames(tree, Get(tree, declarations[k], "id"))

LoopScopeVerdict(tree, place) ==
    LET for == NearestEnclosing(tree, place, "ForStatement")
    IN  IF /\ for.node # NoRef
           /\ for.prop \in {"test", "update"}
           /\ InitializerDeclares(tree, for.node, Held(tree, place).name)
        THEN TagNOTHING
        ELSE TagREF

ScenarioD ==
    LET r == RunAlone(TagCall(SrcFor, "foo.js", 0, 0))
        named == {k \in 1..Len(r.tags) : r.tags[k].name = <<"i">>}
    IN  /\ r.pc = "returned"
        /\ Cardinality(named) = 1
        /\ \A k \in named :
              /\ r.tags[k].type = TagREF
              /\ r.tags[k].line = 1 /\ r.tags[k].column = 36

C14_LoopScope ==
    /\ ScenarioD
    /\ probe.fn = "tagType" /\ probe.done
       /\ KeyOf(probe.tree, probe.at) \in SpecLoopScope
         => probe.out = LoopScopeVerdict(probe.tree, probe.at)

(***************************************************************************)
(* C15: the identifier a declarator declares is Ignore exactly when the    *)
(* declaration the declarator belongs to is the left side of a for-in      *)
(* statement or the initializer of a for statement, and Definition in      *)
(* every other case: in a loop body, and in a function or another          *)
(* expression that stands inside such a slot.                              *)
(***************************************************************************)
\* The declaration of the declarator is itself the loop's slot.
DeclaredInLoopSlot(tree, place) ==
    LET chain == Enclosing(tree, place)
    IN  /\ Len(chain) >= 3
        /\ tree[chain[2].node].type = "VariableDeclaration"
        /\ \/ /\ tree[chain[3].node].type = "ForInStatement"
              /\ chain[3].prop = "left"
           \/ /\ tree[chain[3].node].type = "ForStatement"
              /\ chain[3].prop = "init"

C15_DeclaratorId ==
    probe.fn = "tagType" /\ probe.done
    /\ KeyOf(probe.tree, probe.at) = <<"VariableDeclarator", "id">>
      => probe.out = IF DeclaredInLoopSlot(probe.tree, probe.at)
                     THEN TagNOTHING ELSE TagDEF

(***************************************************************************)
(* C16: the key of a property is Ignore when the property is shorthand.    *)
(* Otherwise, with the nearest declarator around it: Definition when the   *)
(* property stands in the declarator's initializer and key and value are   *)
(* different nodes, Definition when it stands in the declarator's id and   *)
(* key and value are the same node, Reference in every other case, also    *)
(* when no declarator is around it.                                        *)
(***************************************************************************)
PropertyKeyVerdict(tree, place) ==
    LET property == place.node
        declarator == NearestEnclosing(tree, place, "VariableDeclarator")
        sameNode == Get(tree, property, "key") = Get(tree, property, "value")
    IN  IF tree[property].shorthand THEN TagNOTHING
        ELSE IF declarator.node = NoRef THEN TagREF
        ELSE IF declarator.prop = "init" /\ ~sameNode THEN TagDEF
        ELSE IF declarator.prop = "id" /\ sameNode THEN TagDEF
        ELSE TagREF

C16_PropertyKey ==
    probe.fn = "tagType" /\ probe.done
    /\ KeyOf(probe.tree, probe.at) = <<"Property", "key">>
      => probe.out = PropertyKeyVerdict(probe.tree, probe.at)

\* the key a of `const o = {a: b, c}' is classified Definition
C16_Witness ==
    /\ probe.fn = "tagType" /\ probe.done
    /\ probe.tree = TreeProps
    /\ KeyOf(probe.tree, probe.at) = <<"Property", "key">>
    /\ ~probe.tree[probe.at.node].shorthand
    /\ NearestEnclosing(probe.tree, probe.at, "VariableDeclarator").prop
         = "init"
    /\ probe.out = TagDEF

(***************************************************************************)
(* C17: at the places decided by a name the verdict follows from the       *)
(* names alone.  The exported name of an export specifier is Ignore when   *)
(* it equals the local name and Definition otherwise; the local name of    *)
(* an import specifier is Reference when it equals the imported name and   *)
(* Definition otherwise; the key of a method is Ignore when it is          *)
(* `constructor' and Definition otherwise.  So it is also when the parser  *)
(* gave one node for both names of a specifier.                            *)
(***************************************************************************)
NameOf(tree, node, prop) == tree[Get(tree, node, prop)].name

NameVerdict(tree, place) ==
    LET key == KeyOf(tree, place)
        name == Held(tree, place).name
    IN  CASE key = <<"ExportSpecifier", "exported">> ->
               IF name = NameOf(tree, place.node, "local")
               THEN TagNOTHING ELSE TagDEF
          [] key = <<"ImportSpecifier", "local">> ->
               IF name = NameOf(tree, place.node, "imported")
               THEN TagREF ELSE TagDEF
          [] key = <<"MethodDefinition", "key">> ->
               IF name = Str_constructor THEN TagNOTHING ELSE TagDEF

SharesNode(tree, specifier) ==
    \E p, q \in {"exported", "local", "imported"} :
        /\ p # q
        /\ Get(tree, specifier, p) # NoRef
        /\ Get(tree, specifier, p) = Get(tree, specifier, q)

C17_NameConditional ==
    probe.fn = "tagType" /\ probe.done
    /\ KeyOf(probe.tree, probe.at) \in
         { <<"ExportSpecifier", "exported">>, <<"ImportSpecifier", "local">>,
           <<"MethodDefinition", "key">> }
      => probe.out = NameVerdict(probe.tree, probe.at)

\* the exported name of `export {foo}', one node with the local name, is
\* classified Ignore
C17_Witness ==
    /\ probe.fn = "tagType" /\ probe.done
    /\ KeyOf(probe.tree, probe.at) = <<"ExportSpecifier", "exported">>
    /\ SharesNode(probe.tree, probe.at.node)
    /\ probe.out = TagNOTHING

(***************************************************************************)
(* The tags getter on its own: identifier.tags is read on an identifier    *)
(* of a tree with calls, among them the call of a selector method on       *)
(* every text of at most MaxLit characters of LitAlphabet.                 *)
(***************************************************************************)
MaxLit == 4
LitAlphabet == {"a", "b", "-", ".", " ", "\n"}
LitTexts == UNION { [1..n -> LitAlphabet] : n \in 0..MaxLit }

CallTrees ==
    { TreeQuery, TreeNoArg, TreeChain, TreeObjectPosition, TreeArgument,
      TreeNotLiteral, TreeClassName, TreeQueryAll, TreeNumber }
ScannedTrees ==
    { CallTree(name, text) :
        name \in {Str_querySelector, Str_getElementById},
        text \in LitTexts }

\* The same calls on the template literal `<head>${x}<tail>` for every two
\* texts of at most MaxSegment characters of SegmentAlphabet.
MaxSegment == 2
SegmentAlphabet == {"a", ".", " ", "\n"}
SegmentTexts == UNION { [1..n -> SegmentAlphabet] : n \in 0..MaxSegment }
TemplateTrees ==
    { TemplateTree(name, head, tail) :
        name \in {Str_querySelector, Str_getElementById},
        head \in SegmentTexts, tail \in SegmentTexts }

NoTags == [threw |-> FALSE, infos |-> << >>, nOwn |-> 0]

ScanInit ==
    /\ calls = << >>
    /\ JsStart
    /\ doc = NoDoc
    /\ HtmlStart
    /\ probe \in
         UNION { { [fn |-> "tags", tree |-> tree, at |-> place,
                    done |-> FALSE, out |-> NoTags] :
                      place \in IdentifierPlaces(tree) } :
                 tree \in CallTrees }
         \cup { [fn |-> "tags", tree |-> tree,
                 at |-> [node |-> 5, prop |-> "property"],
                 done |-> FALSE, out |-> NoTags] :
                    tree \in ScannedTrees \cup TemplateTrees }

\* decorateAST(ast), then the tags of the identifier found at a place of
\* the tree are read to the end.
ReadTags ==
    /\ probe.fn = "tags" /\ ~probe.done
    /\ \E h \in {DecorateAST(probe.tree, 1)} :
          probe' = [probe EXCEPT
                      !.done = TRUE,
                      !.out = Tags(h, Get(h, probe.at.node, probe.at.prop))]
    /\ UNCHANGED <<jsVars, htmlVars>>

ScanNext == ReadTags

ScanSpec == ScanInit /\ [][ScanNext]_vars

\* The tags found in the literal, after the identifier's own tag.
LiteralInfos(out) == SubSeq(out.infos, out.nOwn + 1, Len(out.infos))

(***************************************************************************)
(* C18: an identifier yields tags found in a literal only if it is         *)
(* classified Reference, its name is one of the five selector methods, it  *)
(* is the property of a member expression that is the callee of a call,    *)
(* and the first argument of that call is a string or template literal.    *)
(* The name in object position, a longer chain of member expressions       *)
(* between the name and the call, a member expression that is not a        *)
(* callee: none of them yields such a tag.                                 *)
(***************************************************************************)
SelectorNames ==
    { Str_querySelector, Str_querySelectorAll, Str_getElementById,
      Str_getElementsByClassName, Str_getElementsByName }

Triggers(tree, place) ==
    LET member == place.node
        around == Enclosing(tree, place)
        call == around[2].node
        first == Get(tree, Get(tree, call, "arguments"), "0")
    IN  /\ KeyOf(tree, place) \in SpecReference
        /\ Held(tree, place).name \in SelectorNames
        /\ tree[member].type = "MemberExpression"
        /\ place.prop = "property"
        /\ Len(around) >= 2
        /\ tree[call].type = "CallExpression"
        /\ Holder(tree, member) = [node |-> call, prop |-> "callee"]
        /\ first # NoRef
        /\ \/ tree[first].type = "Literal" /\ tree[first].vkind = "string"
           \/ tree[first].type = "TemplateLiteral"

C18_LiteralTagsOnlyOnTrigger ==
    probe.fn = "tags" /\ probe.done /\ LiteralInfos(probe.out) # << >>
      => Triggers(probe.tree, probe.at)

(***************************************************************************)
(* The tokens of a text.  A word token is a longest run of letters,        *)
(* digits, `_' and `-' without the hyphens at its ends.  Offsets are       *)
(* zero-based.                                                             *)
(***************************************************************************)
CharAt(text, i) == IF i >= 0 /\ i < Len(text) THEN text[i + 1] ELSE ""

\* A word token stands at offsets from..(to - 1).
IsWordToken(text, from, to) ==
    /\ from < to
    /\ \A i \in from..(to - 1) : CharAt(text, i) \in IdChars
    /\ CharAt(text, from) \in WordChars
    /\ CharAt(text, to - 1) \in WordChars
    /\ \A i \in 0..(from - 1) :
          (\A j \in i..(from - 1) : CharAt(text, j) \in IdChars)
            => \A j \in i..(from - 1) : CharAt(text, j) = "-"
    /\ \A i \in to..(Len(text) - 1) :
          (\A j \in to..i : CharAt(text, j) \in IdChars)
            => \A j \in to..i : CharAt(text, j) = "-"

\* The tokens a method looks for: every word token, or for querySelector
\* and querySelectorAll the word tokens that follow a `.' or a `#'
\* immediately.
IsMatch(text, from, to, bySelector) ==
    /\ IsWordToken(text, from, to)
    /\ bySelector => CharAt(text, from - 1) \in {".", "#"}

RECURSIVE TokensFrom(_, _, _)
TokensFrom(text, i, bySelector) ==
    IF i >= Len(text) THEN << >>
    ELSE LET ends == {to \in (i + 1)..Len(text) :
                          IsMatch(text, i, to, bySelector)}
         IN  IF ends = {} THEN TokensFrom(text, i + 1, bySelector)
             ELSE LET to == CHOOSE e \in ends : TRUE
                  IN  <<[from |-> i, name |-> Slice(text, i, to)]>>
                      \o TokensFrom(text, to, bySelector)
Tokens(text, bySelector) == TokensFrom(text, 0, bySelector)

\* The text of the literal that is the first argument of the call around
\* the place, and where the literal starts.
FirstArgument(tree, place) ==
    LET call == Enclosing(tree, place)[2].node
        first == Get(tree, Get(tree, call, "arguments"), "0")
    IN  IF tree[first].type = "TemplateLiteral"
        THEN tree[Get(tree, Get(tree, first, "quasis"), "0")]
        ELSE tree[first]

BySelector(name) == name \in {Str_querySelector, Str_querySelectorAll}

(***************************************************************************)
(* C19: for a call that triggers the scan, the identifier yields after its *)
(* own tag exactly one Reference tag per match in the text of the literal, *)
(* in order, named by the token: every word token for getElementById,      *)
(* getElementsByClassName and getElementsByName; for querySelector and     *)
(* querySelectorAll the tokens that follow a `.' or `#', named without     *)
(* it.  A literal without a match yields no tag.                           *)
(***************************************************************************)
C19_OneTagPerMatch ==
    probe.fn = "tags" /\ probe.done /\ Triggers(probe.tree, probe.at) =>
        LET name == Held(probe.tree, probe.at).name
            tokens == Tokens(FirstArgument(probe.tree, probe.at).value,
                             BySelector(name))
            found == LiteralInfos(probe.out)
        IN  /\ ~probe.out.threw
            /\ probe.out.nOwn = 1
            /\ Len(found) = Len(tokens)
            /\ \A k \in 1..Len(found) :
                  /\ found[k].type = TagREF
                  /\ found[k].name = tokens[k].name

\* a.querySelectorAll("p.u, #v"): two matches, and a token that is none
C19_Witness ==
    /\ probe.fn = "tags" /\ probe.done /\ Triggers(probe.tree, probe.at)
    /\ BySelector(Held(probe.tree, probe.at).name)
    /\ Len(LiteralInfos(probe.out)) = 2
    /\ Len(Tokens(FirstArgument(probe.tree, probe.at).value, FALSE)) = 3

(***************************************************************************)
(* C20: a tag found in a literal is located at the first character of the  *)
(* name of its own match: its line is the line where the literal starts    *)
(* plus the number of line breaks before the match in the literal; its     *)
(* column counts from the column where the literal starts, plus the        *)
(* opening quote, when the match is on the first line of the literal, and  *)
(* from the start of its line otherwise.  So it is for every match: for a  *)
(* token that occurs twice, and for one that occurs earlier as a part of   *)
(* another token.  Lines count from 1 and columns from 0, as in the tree.  *)
(***************************************************************************)
LineBreaksBefore(text, offset) ==
    {i \in 0..(offset - 1) : CharAt(text, i) = "\n"}

PlaceInLiteral(literal, offset) ==
    LET breaks == LineBreaksBefore(literal.value, offset)
        last == CHOOSE i \in breaks : \A j \in breaks : j <= i
    IN  [line |-> literal.line + Cardinality(breaks),
         column |-> IF breaks = {} THEN literal.column + 1 + offset
                    ELSE offset - (last + 1)]

C20_LiteralTagAtItsMatch ==
    probe.fn = "tags" /\ probe.done /\ Triggers(probe.tree, probe.at) =>
        LET name == Held(probe.tree, probe.at).name
            literal == FirstArgument(probe.tree, probe.at)
            tokens == Tokens(literal.value, BySelector(name))
            found == LiteralInfos(probe.out)
        IN  \A k \in 1..Len(found) :
              k <= Len(tokens) =>
                LET place == PlaceInLiteral(literal, tokens[k].from)
                IN  /\ found[k].line = place.line
                    /\ found[k].column = place.column

(***************************************************************************)
(* C21: the scan of a literal raises no error.  When a selector method is  *)
(* called with a first argument that is no string or template literal, or  *)
(* with no argument, the identifier yields its own Reference tag and no    *)
(* tag from a literal, and the tags getter ends without throwing, so that  *)
(* the identifiers after it are tagged.                                    *)
(***************************************************************************)
\* The identifier is the property of the callee of a call, and is named as
\* a selector method.
SelectorCall(tree, place) ==
    LET member == place.node
        around == Enclosing(tree, place)
    IN  /\ Held(tree, place).name \in SelectorNames
        /\ tree[member].type = "MemberExpression"
        /\ place.prop = "property"
        /\ Len(around) >= 2
        /\ tree[around[2].node].type = "CallExpression"
        /\ around[2].prop = "callee"
        /\ Holder(tree, member).node = around[2].node

C21_ScanRaisesNoError ==
    probe.fn = "tags" /\ probe.done
    /\ SelectorCall(probe.tree, probe.at)
    /\ ~Triggers(probe.tree, probe.at)
      => /\ ~probe.out.threw
         /\ probe.out.nOwn = 1
         /\ probe.out.infos[1].type = TagREF
         /\ LiteralInfos(probe.out) = << >>

(***************************************************************************)
(* C22: after decorateAST on a tree in which one node object stands at     *)
(* two or more places, every place holds a node whose parent link is the   *)
(* owner of the place and the property of the place; so it is for every    *)
(* place below the node that stands twice.  The link of the first place    *)
(* is kept, and every identifier below the root is found at its place and  *)
(* classified.                                                             *)
(***************************************************************************)
\* Some object is held at two places of the tree.
HasSharedNode(tree) ==
    \E p, q \in Places(tree) :
        p # q /\ Get(tree, p.node, p.prop) = Get(tree, q.node, q.prop)

\* Every object under the root is linked to the place that holds it.
LinkedToOwnPlace(h) ==
    \A o \in Reach(h, 1) :
        \A k \in 1..Len(h[o].props) :
            LET held == h[o].props[k].ref
            IN  /\ h[held].hasParent
                /\ h[held].parentNode = o
                /\ h[held].parentProp = h[o].props[k].key

\* The places under the root that hold an identifier.
IdentifierPlacesUnder(h) ==
    UNION { { <<o, k>> : k \in { j \in 1..Len(h[o].props) :
                                   h[h[o].props[j].ref].type = "Identifier" } } :
            o \in Reach(h, 1) }

C23_NearestAncestor ==
    probe.fn = "getAncestor" /\ probe.done
    /\ probe.tree # TreeSharedCall
      => probe.out = NearestEnclosing(probe.tree, probe.at, probe.type)

(***************************************************************************)
(* C24: the type of an identifier is determined once: the first read of    *)
(* tagType stores the verdict in the node, every later read (the check for *)
(* an unknown type, the type of the tag, the tags getter) gives the stored *)
(* verdict, and determining the type again on the tree as it is now gives  *)
(* the same verdict.                                                       *)
(***************************************************************************)
\* The tags the identifier itself has given to the call.
OwnTagsOf(f, n) ==
    { k \in 1..Len(tags[f]) : origins[f][k] = [node |-> n, k |-> 0] }

C24_VerdictDeterminedOnce ==
    \A f \in Calls :
        Entered(f) =>
            \A k \in 1..Len(idents[f]) :
                LET n == idents[f][k]
                IN  /\ k < idx[f] =>
                          /\ heap[n].tagType # Unset
                          /\ heap[n].tagType = DetermineTagType(heap, n)
                          /\ \A t \in OwnTagsOf(f, n) :
                                tags[f][t].type = heap[n].tagType
                    /\ k > idx[f] => heap[n].tagType = Unset

\* A call has handled identifiers of more than one type, one of them of
\* unknown type, and has more to handle.
C24_Witness ==
    \E f \in Calls :
        /\ pc[f] = "walking"
        /\ idx[f] <= Len(idents[f])
        /\ \E j, k \in 1..(idx[f] - 1) :
              /\ heap[idents[f][j]].tagType = TagDEF
              /\ heap[idents[f][k]].tagType = TagREF
              /\ OwnTagsOf(f, idents[f][j]) # {}

(***************************************************************************)
(* C25: every tag of a call names a place of the text the call was given:  *)
(* its line, less the line offset, is the number of a line of the text,    *)
(* its column is at least 1, and its ref is that line of the text.  This   *)
(* holds for the tags of identifiers and for the tags found in literals,   *)
(* also when the text scanned in the literal has line breaks.              *)
(***************************************************************************)
C25_TagsAtLinesOfTheSource ==
    \A f \in Calls :
        \A k \in 1..Len(tags[f]) :
            LET sources == Split(SourceOf(f))
                line == tags[f][k].line - calls[f].lineOffset
            IN  /\ line \in 1..Len(sources)
                /\ tags[f][k].column >= 1
                /\ tags[f][k].ref = sources[line]

(***************************************************************************)
(* C26: a call that has entered the loop of tagAST returns.  Each step of  *)
(* the loop goes on to the next of the tree's identifiers, the scan of the *)
(* literal having found each of its tokens in a line of the literal, and   *)
(* the step after the last identifier returns the tags: the number of      *)
(* identifiers still to handle falls with every step and the call ends in  *)
(* no other way than by returning.                                         *)
(***************************************************************************)
C26_LoopAdvancesAndReturns ==
    [][\A f \in Calls :
          pc[f] = "walking" =>
              \/ pc'[f] = "walking" /\ idx'[f] = idx[f]
              \/ /\ pc'[f] = "walking"
                 /\ idx[f] <= Len(idents[f])
                 /\ idx'[f] = idx[f] + 1
              \/ /\ pc'[f] = "returned"
                 /\ idx[f] = Len(idents[f]) + 1]_vars

(***************************************************************************)
(* C27: when the first argument is a template literal the scan reads the   *)
(* text before the first interpolation and nothing else: there is one tag  *)
(* per token of that text, none for a token of a later text, and the first *)
(* tag is located from the start of that text; the text of a template      *)
(* without interpolation is the whole of it.                               *)
(***************************************************************************)
\* The texts of the template literal that is the first argument of the
\* call around the place, in order: the quasis as the parser gives them.
Segments(tree, place) ==
    LET call == Enclosing(tree, place)[2].node
        first == Get(tree, Get(tree, call, "arguments"), "0")
        quasis == Get(tree, first, "quasis")
    IN  [k \in 1..Len(tree[quasis].props) |->
            tree[tree[quasis].props[k].ref]]

TemplateArgument(tree, place) ==
    /\ Triggers(tree, place)
    /\ LET call == Enclosing(tree, place)[2].node
       IN  tree[Get(tree, Get(tree, call, "arguments"), "0")].type
               = "TemplateLiteral"

C27_FirstSegmentOnly ==
    probe.fn = "tags" /\ probe.done
    /\ TemplateArgument(probe.tree, probe.at) =>
        LET name == Held(probe.tree, probe.at).name
            segment == Segments(probe.tree, probe.at)[1]
            tokens == Tokens(segment.value, BySelector(name))
            found == LiteralInfos(probe.out)
        IN  /\ Len(found) = Len(tokens)
            /\ \A k \in 1..Len(found) : found[k].name = tokens[k].name
            /\ Len(found) >= 1 =>
                 LET place == PlaceInLiteral(segment, tokens[1].from)
                 IN  /\ found[1].line = place.line
                     /\ found[1].column = place.column

\* A template with a token before the interpolation and another after it.
C27_Witness ==
    /\ probe.fn = "tags" /\ probe.done
    /\ TemplateArgument(probe.tree, probe.at)
    /\ LET segments == Segments(probe.tree, probe.at)
           bySelector == BySelector(Held(probe.tree, probe.at).name)
       IN  /\ Len(segments) = 2
           /\ Len(Tokens(segments[1].value, bySelector)) = 1
           /\ Len(Tokens(segments[2].value, bySelector)) = 1
           /\ Len(LiteralInfos(probe.out)) = 1
=============================================================================
